---- MODULE Spec2Model ----
(***************************************************************************)
(* A model of the vdata-app MCP server's query pipeline: the SQL guard     *)
(* (validateQuery), the LIMIT rewrite and dispatch of executeQuery, the    *)
(* connection-pool map, the result normalizer (formatDatabaseResult) and   *)
(* the CallTool handler that ties them together.                           *)
(*                                                                         *)
(* JavaScript strings are modelled as sequences of one-character strings,  *)
(* so that trim, toUpperCase, startsWith, includes and replace are         *)
(* computed character by character as the engine computes them.            *)
(***************************************************************************)
EXTENDS Integers, Sequences, FiniteSets, TLC

\* ------------------------------------------------------------------------
\* Optional values (a field that may be undefined)
\* ------------------------------------------------------------------------
None == <<>>

Some(v) == <<v>>

\* ------------------------------------------------------------------------
\* String primitives
\* ------------------------------------------------------------------------
\* String.prototype.toUpperCase on one (ASCII) character: the letters it changes.
UpperOf ==
    [a |-> "A", b |-> "B", c |-> "C", d |-> "D", e |-> "E", f |-> "F", g |-> "G",
     h |-> "H", i |-> "I", j |-> "J", k |-> "K", l |-> "L", m |-> "M", n |-> "N",
     o |-> "O", p |-> "P", q |-> "Q", r |-> "R", s |-> "S", t |-> "T", u |-> "U",
     v |-> "V", w |-> "W", x |-> "X", y |-> "Y", z |-> "Z"]

toUpperChar(c) == IF c \in DOMAIN UpperOf THEN UpperOf[c] ELSE c

toUpperCase(s) == [i \in 1..Len(s) |-> toUpperChar(s[i])]

\* The characters String.prototype.trim strips (those of the inputs used here).
WhiteSpace == {" ", "\t", "\n", "\r"}

trim(s) ==
    LET keep == {i \in 1..Len(s) : s[i] \notin WhiteSpace}
    IN  IF keep = {}
        THEN <<>>
        ELSE SubSeq(s, CHOOSE i \in keep : \A j \in keep : i <= j,
                       CHOOSE i \in keep : \A j \in keep : i >= j)

startsWith(s, p) == Len(s) >= Len(p) /\ \A j \in 1..Len(p) : s[j] = p[j]

endsWith(s, p) == Len(s) >= Len(p) /\ SubSeq(s, Len(s) - Len(p) + 1, Len(s)) = p

includes(s, p) ==
    \E i \in 0..(Len(s) - Len(p)) : \A j \in 1..Len(p) : s[i + j] = p[j]

\* s.replace(/;$/, ''): one semicolon at the very end of the text is removed.
stripTrailingSemicolon(s) ==
    IF Len(s) > 0 /\ s[Len(s)] = ";" THEN SubSeq(s, 1, Len(s) - 1) ELSE s

\* s.replace(p, ''): the first occurrence of p, wherever it is, is removed.
removeFirst(s, p) ==
    IF ~includes(s, p)
    THEN s
    ELSE LET at(k) == \A j \in 1..Len(p) : s[k + j] = p[j]
             i == CHOOSE k \in 0..(Len(s) - Len(p)) :
                    at(k) /\ \A j \in 0..(k - 1) : ~at(j)
         IN  SubSeq(s, 1, i) \o SubSeq(s, i + Len(p) + 1, Len(s))

Digits == <<"0","1","2","3","4","5","6","7","8","9">>

RECURSIVE natToString(_)
natToString(n) ==
    IF n < 10 THEN <<Digits[n + 1]>>
    ELSE natToString(n \div 10) \o <<Digits[(n % 10) + 1]>>

\* `${n}` for an integer n.
numberToString(n) == IF n < 0 THEN <<"-">> \o natToString(0 - n) ELSE natToString(n)

mathMin(a, b) == IF a < b THEN a ELSE b

\* ------------------------------------------------------------------------
\* Texts of database.ts
\* ------------------------------------------------------------------------
\* 'SELECT'
KW_SELECT ==
    <<"S","E","L","E","C","T">>

\* 'LIMIT'
KW_LIMIT ==
    <<"L","I","M","I","T">>

\* 'DROP'
KW_DROP ==
    <<"D","R","O","P">>

\* 'DELETE'
KW_DELETE ==
    <<"D","E","L","E","T","E">>

\* 'UPDATE'
KW_UPDATE ==
    <<"U","P","D","A","T","E">>

\* 'INSERT'
KW_INSERT ==
    <<"I","N","S","E","R","T">>

\* 'ALTER'
KW_ALTER ==
    <<"A","L","T","E","R">>

\* 'CREATE'
KW_CREATE ==
    <<"C","R","E","A","T","E">>

\* 'TRUNCATE'
KW_TRUNCATE ==
    <<"T","R","U","N","C","A","T","E">>

\* 'Empty or invalid query'
MSG_EMPTY ==
    <<"E","m","p","t","y"," ","o","r"," ","i","n","v","a","l","i","d"," ","q","u","e","r",
      "y">>

\* 'Only SELECT statements allowed'
MSG_ONLY_SELECT ==
    <<"O","n","l","y"," ","S","E","L","E","C","T"," ","s","t","a","t","e","m","e","n","t",
      "s"," ","a","l","l","o","w","e","d">>

\* 'Dangerous keyword: '
MSG_DANGEROUS ==
    <<"D","a","n","g","e","r","o","u","s"," ","k","e","y","w","o","r","d",":"," ">>

\* ' LIMIT '
TXT_LIMIT ==
    <<" ","L","I","M","I","T"," ">>

MAX_ROWS == 1000

\* const dangerous = [...], in the order the loop visits it.
dangerous ==
    <<KW_DROP, KW_DELETE, KW_UPDATE, KW_INSERT, KW_ALTER, KW_CREATE, KW_TRUNCATE>>

\* ------------------------------------------------------------------------
\* validateQuery
\* ------------------------------------------------------------------------
\* A character of an SQL identifier.
isWordChar(c) ==
    \/ c \in DOMAIN UpperOf
    \/ \E x \in DOMAIN UpperOf : c = UpperOf[x]
    \/ \E d \in 1..Len(Digits) : c = Digits[d]
    \/ c = "_"

\* p occurs in s as a whole word: not inside a longer identifier.
includesWord(s, p) ==
    \E i \in 0..(Len(s) - Len(p)) :
        /\ \A j \in 1..Len(p) : s[i + j] = p[j]
        /\ i = 0 \/ ~isWordChar(s[i])
        /\ i + Len(p) = Len(s) \/ ~isWordChar(s[i + Len(p) + 1])

\* The first token of a text: its characters up to the first white space.
firstToken(s) ==
    LET stops == {i \in 1..Len(s) : s[i] \in WhiteSpace}
    IN  IF stops = {} THEN s
        ELSE SubSeq(s, 1, (CHOOSE i \in stops : \A j \in stops : i <= j) - 1)

\* dangerousHits, had the loop looked for a keyword only at the head of the text.
dangerousHits_Leading(trimmed) ==
    {k \in 1..Len(dangerous) : startsWith(trimmed, dangerous[k])}

\* dangerousHits, had the loop matched whole words instead of substrings.
dangerousHits_WholeWord(trimmed) ==
    {k \in 1..Len(dangerous) : includesWord(trimmed, dangerous[k])}

\* The keywords of the denylist found in an upper-cased text, as list positions.
dangerousHits(trimmed) == {k \in 1..Len(dangerous) : includes(trimmed, dangerous[k])}

\* validateQuery after its first line: the verdict for the text it tests
\* (trimmed), selectOk being the outcome of the SELECT test on it.
verdictOf(trimmed, selectOk) ==
    LET hits == dangerousHits(trimmed)
    IN  IF trimmed = <<>>
        THEN [valid |-> FALSE, error |-> Some(MSG_EMPTY)]
        ELSE IF ~selectOk
        THEN [valid |-> FALSE, error |-> Some(MSG_ONLY_SELECT)]
        ELSE IF hits # {}
        THEN [valid |-> FALSE,
              error |-> Some(MSG_DANGEROUS
                             \o dangerous[CHOOSE k \in hits : \A j \in hits : k <= j])]
        ELSE [valid |-> TRUE, error |-> None]

\* validateQuery without the trim().
validateQuery_NoTrim(query) ==
    verdictOf(toUpperCase(query), startsWith(toUpperCase(query), KW_SELECT))

\* validateQuery without the toUpperCase().
validateQuery_CaseSensitive(query) ==
    verdictOf(trim(query), startsWith(trim(query), KW_SELECT))

\* validateQuery comparing the first token with SELECT instead of startsWith.
validateQuery_FirstToken(query) ==
    verdictOf(toUpperCase(trim(query)),
              firstToken(toUpperCase(trim(query))) = KW_SELECT)

validateQuery(query) ==
    LET trimmed == toUpperCase(trim(query))
    IN  verdictOf(trimmed, startsWith(trimmed, KW_SELECT))

\* ------------------------------------------------------------------------
\* executeQuery: the LIMIT rewrite
\* ------------------------------------------------------------------------
\* limit ? Math.min(limit, MAX_ROWS) : MAX_ROWS  (limit: None when not passed)
actualLimit(limit) ==
    IF limit # None /\ limit[1] # 0 THEN mathMin(limit[1], MAX_ROWS) ELSE MAX_ROWS

\* finalQueryOf, had the LIMIT test skipped the toUpperCase().
finalQueryOf_CaseSensitive(query, limit) ==
    LET trimmedQuery == trim(query)
    IN  IF ~includes(trimmedQuery, KW_LIMIT)
        THEN stripTrailingSemicolon(trimmedQuery) \o TXT_LIMIT
             \o numberToString(actualLimit(limit))
        ELSE trimmedQuery

finalQueryOf(query, limit) ==
    LET trimmedQuery == trim(query)
    IN  IF ~includes(toUpperCase(trimmedQuery), KW_LIMIT)
        THEN stripTrailingSemicolon(trimmedQuery) \o TXT_LIMIT
             \o numberToString(actualLimit(limit))
        ELSE trimmedQuery

\* ------------------------------------------------------------------------
\* Texts of index.ts and of the database helpers
\* ------------------------------------------------------------------------
\* 'Error:'
TXT_ERROR_PREFIX ==
    <<"E","r","r","o","r",":">>

\* 'Error: '
TXT_ERROR_PREFIX_SP ==
    <<"E","r","r","o","r",":"," ">>

\* 'Query failed: '
TXT_QUERY_FAILED ==
    <<"Q","u","e","r","y"," ","f","a","i","l","e","d",":"," ">>

\* 'Query executed successfully. '
TXT_EXECUTED ==
    <<"Q","u","e","r","y"," ","e","x","e","c","u","t","e","d"," ","s","u","c","c","e","s",
      "s","f","u","l","l","y","."," ">>

\* ' rows returned.'
TXT_ROWS_RETURNED ==
    <<" ","r","o","w","s"," ","r","e","t","u","r","n","e","d",".">>

\* 'Query completed successfully'
TXT_COMPLETED ==
    <<"Q","u","e","r","y"," ","c","o","m","p","l","e","t","e","d"," ","s","u","c","c","e",
      "s","s","f","u","l","l","y">>

\* 'Showing first '
TXT_SHOWING_FIRST ==
    <<"S","h","o","w","i","n","g"," ","f","i","r","s","t"," ">>

\* ' of '
TXT_OF ==
    <<" ","o","f"," ">>

\* ' rows.'
TXT_ROWS_DOT ==
    <<" ","r","o","w","s",".">>

\* 'undefined'
TXT_UNDEFINED ==
    <<"u","n","d","e","f","i","n","e","d">>

\* 'N/A'
TXT_NA ==
    <<"N","/","A">>

\* 'Database URL not configured for: '
TXT_URL_NOT_CONFIGURED ==
    <<"D","a","t","a","b","a","s","e"," ","U","R","L"," ","n","o","t"," ","c","o","n","f",
      "i","g","u","r","e","d"," ","f","o","r",":"," ">>

\* 'main'
TXT_MAIN ==
    <<"m","a","i","n">>

\* 'hul'
TXT_HUL ==
    <<"h","u","l">>

\* 'SELECT * FROM digital_insights LIMIT '
TXT_SAMPLE_QUERY ==
    <<"S","E","L","E","C","T"," ","*"," ","F","R","O","M"," ","d","i","g","i","t","a","l",
      "_","i","n","s","i","g","h","t","s"," ","L","I","M","I","T"," ">>

RAW_DATA_EXPORT_ROW_CAP == 5

\* ------------------------------------------------------------------------
\* JavaScript values
\* ------------------------------------------------------------------------
\* A value: t is its kind, n a number (or a boolean as 0/1), s a string's
\* characters, a an array's elements.
Undefined == [t |-> "undefined", n |-> 0, s |-> <<>>, a |-> <<>>]

Null == [t |-> "null", n |-> 0, s |-> <<>>, a |-> <<>>]

Num(k) == [t |-> "number", n |-> k, s |-> <<>>, a |-> <<>>]

Bool(b) == [t |-> "boolean", n |-> IF b THEN 1 ELSE 0, s |-> <<>>, a |-> <<>>]

Str(cs) == [t |-> "string", n |-> 0, s |-> cs, a |-> <<>>]

Arr(es) == [t |-> "array", n |-> 0, s |-> <<>>, a |-> es]

\* An array element: a row object (its keys in insertion order and their
\* values), a string (a column name), or null.
RowObj(ks, vs) == [t |-> "object", keys |-> ks, vals |-> vs, s |-> ""]

StrElem(x) == [t |-> "string", keys |-> <<>>, vals |-> <<>>, s |-> x]

NullElem == [t |-> "null", keys |-> <<>>, vals |-> <<>>, s |-> ""]

\* The truthiness test of if (...), || and ?:
truthy(v) ==
    CASE v.t = "undefined" -> FALSE
      [] v.t = "null"      -> FALSE
      [] v.t = "number"    -> v.n # 0
      [] v.t = "boolean"   -> v.n = 1
      [] v.t = "string"    -> v.s # <<>>
      [] OTHER             -> TRUE

\* a || b
orElse(a, b) == IF truthy(a) THEN a ELSE b

isArray(v) == v.t = "array"

isNumber(v) == v.t = "number"

\* typeof x === 'object' for an array element (typeof null is 'object').
elemIsObject(e) == e.t \in {"object", "null"}

\* `${v}` for undefined, a string or a number.
templateString(v) ==
    CASE v.t = "string" -> v.s
      [] v.t = "number" -> numberToString(v.n)
      [] OTHER          -> TXT_UNDEFINED

\* The fields the normalizer reads of a structured outcome or a parsed document.
FieldNames ==
    {"success", "rows", "columns", "row_count", "error", "message", "query",
     "data", "results", "platforms", "distribution",
     "sample_size", "unique_values", "total_rows"}

EmptyObject == [f \in FieldNames |-> Undefined]

\* ------------------------------------------------------------------------
\* formatDatabaseResult
\* ------------------------------------------------------------------------
\* sliceTo, had the slice started at index 1: rows.slice(1, end).
sliceTo_FromOne(rows, end) ==
    LET n    == Len(rows)
        stop == IF end < 0 THEN (IF n + end < 0 THEN 0 ELSE n + end)
                ELSE mathMin(end, n)
    IN  IF stop < 2 THEN <<>> ELSE SubSeq(rows, 2, stop)

\* rows.slice(0, end)
sliceTo(rows, end) ==
    LET n    == Len(rows)
        stop == IF end < 0 THEN (IF n + end < 0 THEN 0 ELSE n + end)
                ELSE mathMin(end, n)
    IN  SubSeq(rows, 1, stop)

\* limitRows, had truncated been rows.length >= limited.length.
limitRows_AtLeast(rows, displayLimit) ==
    IF displayLimit # None
    THEN LET limited == sliceTo(rows, displayLimit[1])
         IN  [rows |-> limited, truncated |-> Len(rows) >= Len(limited)]
    ELSE [rows |-> rows, truncated |-> FALSE]

\* limitRows, had truncated compared the row count with the limit itself.
limitRows_CompareLimit(rows, displayLimit) ==
    IF displayLimit # None
    THEN [rows |-> sliceTo(rows, displayLimit[1]),
          truncated |-> Len(rows) > displayLimit[1]]
    ELSE [rows |-> rows, truncated |-> FALSE]

\* limitRows, had it kept the last rows instead of the first.
limitRows_LastRows(rows, displayLimit) ==
    IF displayLimit # None
    THEN LET limited == sliceTo(rows, displayLimit[1])
         IN  [rows |-> SubSeq(rows, Len(rows) - Len(limited) + 1, Len(rows)),
              truncated |-> Len(rows) > Len(limited)]
    ELSE [rows |-> rows, truncated |-> FALSE]

\* displayLimit: None when the option is absent, Some(d) when it is a number.
limitRows(rows, displayLimit) ==
    IF displayLimit # None
    THEN LET limited == sliceTo(rows, displayLimit[1])
         IN  [rows |-> limited, truncated |-> Len(rows) > Len(limited)]
    ELSE [rows |-> rows, truncated |-> FALSE]

\* appendTruncationMessage, had the note replaced the message.
appendTruncationMessage_Replaces(message, truncated, totalRows, displayLimit) ==
    IF ~truncated
    THEN message
    ELSE LET shownCount == IF displayLimit # None THEN displayLimit[1] ELSE totalRows
         IN  Str(TXT_SHOWING_FIRST \o numberToString(shownCount) \o TXT_OF
                 \o numberToString(totalRows) \o TXT_ROWS_DOT)

\* message: a value (undefined or a string); the result is a value too.
appendTruncationMessage(message, truncated, totalRows, displayLimit) ==
    IF ~truncated
    THEN message
    ELSE LET shownCount == IF displayLimit # None THEN displayLimit[1] ELSE totalRows
             note == TXT_SHOWING_FIRST \o numberToString(shownCount) \o TXT_OF
                     \o numberToString(totalRows) \o TXT_ROWS_DOT
         IN  IF truthy(message) THEN Str(trim(message.s) \o <<" ">> \o note)
             ELSE Str(note)

\* A string or undefined value as an optional text.
optText(v) == IF v.t = "string" THEN Some(v.s) ELSE None

\* The strings of an array of strings.
stringsOf(es) == [i \in 1..Len(es) |-> es[i].s]

NoResult ==
    [query |-> <<>>, results |-> <<>>, columns |-> <<>>, rowCount |-> 0,
     status |-> "none", error |-> None, message |-> None,
     truncated |-> FALSE, displayLimit |-> 0]

Returned(r) == [kind |-> "returned", value |-> r]

\* A TypeError raised while the value was computed.
Threw == [kind |-> "threw", value |-> NoResult]

\* formatDatabaseResult fell through to `return dbResult`.
ReturnedRaw == [kind |-> "raw", value |-> NoResult]

\* prepareResult, had the keys of the first row been preferred to the columns
\* passed in.
prepareResult_KeysFirst(params, displayLimit) ==
    LET safeRows == IF isArray(params.rows) THEN params.rows.a ELSE <<>>
        lim      == limitRows(safeRows, displayLimit)
        explicit == isArray(params.columns) /\ Len(params.columns.a) > 0
        totalRows == IF isNumber(params.rowCount) THEN params.rowCount.n
                     ELSE Len(safeRows)
        effectiveDisplayLimit == IF displayLimit # None THEN displayLimit[1]
                                 ELSE totalRows
    IN  IF Len(lim.rows) > 0 /\ lim.rows[1].t = "null"
        THEN Threw
        ELSE Returned(
          [query    |-> params.queryLabel,
           results  |-> lim.rows,
           columns  |-> IF Len(lim.rows) > 0 THEN lim.rows[1].keys
                        ELSE IF explicit THEN stringsOf(params.columns.a)
                        ELSE <<>>,
           rowCount |-> totalRows,
           status   |-> params.status,
           error    |-> optText(params.error),
           message  |-> optText(
                          IF params.status = "success"
                          THEN appendTruncationMessage(params.message, lim.truncated,
                                                       totalRows, displayLimit)
                          ELSE params.message),
           truncated    |-> lim.truncated,
           displayLimit |-> effectiveDisplayLimit])

\* prepareResult, had totalRows always been the number of rows supplied.
prepareResult_CountFromRows(params, displayLimit) ==
    LET safeRows == IF isArray(params.rows) THEN params.rows.a ELSE <<>>
        lim      == limitRows(safeRows, displayLimit)
        explicit == isArray(params.columns) /\ Len(params.columns.a) > 0
        totalRows == Len(safeRows)
        effectiveDisplayLimit == IF displayLimit # None THEN displayLimit[1]
                                 ELSE totalRows
    IN  IF ~explicit /\ Len(lim.rows) > 0 /\ lim.rows[1].t = "null"
        THEN Threw
        ELSE Returned(
          [query    |-> params.queryLabel,
           results  |-> lim.rows,
           columns  |-> IF explicit THEN stringsOf(params.columns.a)
                        ELSE IF Len(lim.rows) > 0 THEN lim.rows[1].keys
                        ELSE <<>>,
           rowCount |-> totalRows,
           status   |-> params.status,
           error    |-> optText(params.error),
           message  |-> optText(
                          IF params.status = "success"
                          THEN appendTruncationMessage(params.message, lim.truncated,
                                                       totalRows, displayLimit)
                          ELSE params.message),
           truncated    |-> lim.truncated,
           displayLimit |-> effectiveDisplayLimit])

\* prepareResult, had effectiveDisplayLimit fallen back to the number of rows
\* instead of totalRows.
prepareResult_LimitFromRows(params, displayLimit) ==
    LET safeRows == IF isArray(params.rows) THEN params.rows.a ELSE <<>>
        lim      == limitRows(safeRows, displayLimit)
        explicit == isArray(params.columns) /\ Len(params.columns.a) > 0
        totalRows == IF isNumber(params.rowCount) THEN params.rowCount.n
                     ELSE Len(safeRows)
        effectiveDisplayLimit == IF displayLimit # None THEN displayLimit[1]
                                 ELSE Len(safeRows)
    IN  IF ~explicit /\ Len(lim.rows) > 0 /\ lim.rows[1].t = "null"
        THEN Threw
        ELSE Returned(
          [query    |-> params.queryLabel,
           results  |-> lim.rows,
           columns  |-> IF explicit THEN stringsOf(params.columns.a)
                        ELSE IF Len(lim.rows) > 0 THEN lim.rows[1].keys
                        ELSE <<>>,
           rowCount |-> totalRows,
           status   |-> params.status,
           error    |-> optText(params.error),
           message  |-> optText(
                          IF params.status = "success"
                          THEN appendTruncationMessage(params.message, lim.truncated,
                                                       totalRows, displayLimit)
                          ELSE params.message),
           truncated    |-> lim.truncated,
           displayLimit |-> effectiveDisplayLimit])

\* params: queryLabel (text), rows, columns, rowCount, message, error (values)
\* and status. Object.keys(null) throws.
prepareResult(params, displayLimit) ==
    LET safeRows == IF isArray(params.rows) THEN params.rows.a ELSE <<>>
        lim      == limitRows(safeRows, displayLimit)
        explicit == isArray(params.columns) /\ Len(params.columns.a) > 0
        totalRows == IF isNumber(params.rowCount) THEN params.rowCount.n
                     ELSE Len(safeRows)
        effectiveDisplayLimit == IF displayLimit # None THEN displayLimit[1]
                                 ELSE totalRows
    IN  IF ~explicit /\ Len(lim.rows) > 0 /\ lim.rows[1].t = "null"
        THEN Threw
        ELSE Returned(
          [query    |-> params.queryLabel,
           results  |-> lim.rows,
           columns  |-> IF explicit THEN stringsOf(params.columns.a)
                        ELSE IF Len(lim.rows) > 0 THEN lim.rows[1].keys
                        ELSE <<>>,
           rowCount |-> totalRows,
           status   |-> params.status,
           error    |-> optText(params.error),
           message  |-> optText(
                          IF params.status = "success"
                          THEN appendTruncationMessage(params.message, lim.truncated,
                                                       totalRows, displayLimit)
                          ELSE params.message),
           truncated    |-> lim.truncated,
           displayLimit |-> effectiveDisplayLimit])

\* asRowArray, had an empty array not counted as a row array.
asRowArray_NonEmpty(value) ==
    IF isArray(value) /\ Len(value.a) > 0 /\ elemIsObject(value.a[1])
    THEN value
    ELSE Undefined

asRowArray(value) ==
    IF isArray(value) /\ (Len(value.a) = 0 \/ elemIsObject(value.a[1]))
    THEN value
    ELSE Undefined

asStringArray(value) ==
    IF isArray(value) /\ \A i \in 1..Len(value.a) : value.a[i].t = "string"
    THEN value
    ELSE Undefined

\* query || other || 'N/A'
queryLabelOf(query, other) ==
    IF query # None /\ query[1] # <<>> THEN query[1]
    ELSE IF truthy(other) THEN templateString(other)
    ELSE TXT_NA

\* formatParsed, had it left the column fallback to prepareResult, which looks
\* at the rows the display limit leaves.
formatParsed_KeysFromLimited(parsed, query, displayLimit) ==
    LET rowData ==
            orElse(asRowArray(parsed.data),
            orElse(asRowArray(parsed.rows),
            orElse(asRowArray(parsed.results),
            orElse(asRowArray(parsed.platforms),
            orElse(asRowArray(parsed.distribution),
            orElse(asRowArray(parsed.columns), Arr(<<>>)))))))
        strings == asStringArray(parsed.columns)
        totalRows ==
            IF isNumber(parsed.row_count) THEN parsed.row_count
            ELSE IF isNumber(parsed.sample_size) THEN parsed.sample_size
            ELSE IF isNumber(parsed.unique_values) THEN parsed.unique_values
            ELSE IF isNumber(parsed.total_rows) THEN parsed.total_rows
            ELSE Num(Len(rowData.a))
    IN  prepareResult(
          [queryLabel |-> queryLabelOf(query, parsed.query),
           rows       |-> rowData,
           columns    |-> IF truthy(strings) THEN strings ELSE Arr(<<>>),
           rowCount   |-> totalRows,
           status     |-> "success",
           message    |-> orElse(parsed.message, Str(TXT_COMPLETED)),
           error      |-> Undefined],
          displayLimit)

\* formatParsed, had total_rows been looked at before the other count fields.
formatParsed_TotalRowsFirst(parsed, query, displayLimit) ==
    LET rowData ==
            orElse(asRowArray(parsed.data),
            orElse(asRowArray(parsed.rows),
            orElse(asRowArray(parsed.results),
            orElse(asRowArray(parsed.platforms),
            orElse(asRowArray(parsed.distribution),
            orElse(asRowArray(parsed.columns), Arr(<<>>)))))))
        strings == asStringArray(parsed.columns)
        totalRows ==
            IF isNumber(parsed.total_rows) THEN parsed.total_rows
            ELSE IF isNumber(parsed.row_count) THEN parsed.row_count
            ELSE IF isNumber(parsed.sample_size) THEN parsed.sample_size
            ELSE IF isNumber(parsed.unique_values) THEN parsed.unique_values
            ELSE Num(Len(rowData.a))
    IN  IF ~truthy(strings) /\ Len(rowData.a) > 0 /\ rowData.a[1].t = "null"
        THEN Threw
        ELSE prepareResult(
               [queryLabel |-> queryLabelOf(query, parsed.query),
                rows       |-> rowData,
                columns    |-> IF truthy(strings) THEN strings
                               ELSE IF Len(rowData.a) > 0
                               THEN Arr([i \in 1..Len(rowData.a[1].keys) |->
                                           StrElem(rowData.a[1].keys[i])])
                               ELSE Arr(<<>>),
                rowCount   |-> totalRows,
                status     |-> "success",
                message    |-> orElse(parsed.message, Str(TXT_COMPLETED)),
                error      |-> Undefined],
               displayLimit)

\* The body of the try block, for a document JSON.parse accepted.  parsed is
\* the object's fields (all undefined for a scalar or an array document).
formatParsed(parsed, query, displayLimit) ==
    LET rowData ==
            orElse(asRowArray(parsed.data),
            orElse(asRowArray(parsed.rows),
            orElse(asRowArray(parsed.results),
            orElse(asRowArray(parsed.platforms),
            orElse(asRowArray(parsed.distribution),
            orElse(asRowArray(parsed.columns), Arr(<<>>)))))))
        strings == asStringArray(parsed.columns)
        totalRows ==
            IF isNumber(parsed.row_count) THEN parsed.row_count
            ELSE IF isNumber(parsed.sample_size) THEN parsed.sample_size
            ELSE IF isNumber(parsed.unique_values) THEN parsed.unique_values
            ELSE IF isNumber(parsed.total_rows) THEN parsed.total_rows
            ELSE Num(Len(rowData.a))
    IN  IF ~truthy(strings) /\ Len(rowData.a) > 0 /\ rowData.a[1].t = "null"
        THEN Threw
        ELSE prepareResult(
               [queryLabel |-> queryLabelOf(query, parsed.query),
                rows       |-> rowData,
                columns    |-> IF truthy(strings) THEN strings
                               ELSE IF Len(rowData.a) > 0
                               THEN Arr([i \in 1..Len(rowData.a[1].keys) |->
                                           StrElem(rowData.a[1].keys[i])])
                               ELSE Arr(<<>>),
                rowCount   |-> totalRows,
                status     |-> "success",
                message    |-> orElse(parsed.message, Str(TXT_COMPLETED)),
                error      |-> Undefined],
               displayLimit)

\* The catch block: the text as an error or as a plain message.
formatUnparsed(text, query, displayLimit) ==
    IF startsWith(text, TXT_ERROR_PREFIX)
    THEN prepareResult(
           [queryLabel |-> queryLabelOf(query, Undefined),
            rows |-> Arr(<<>>), columns |-> Arr(<<>>), rowCount |-> Num(0),
            status |-> "error",
            error |-> Str(removeFirst(text, TXT_ERROR_PREFIX_SP)),
            message |-> Str(text)],
           displayLimit)
    ELSE prepareResult(
           [queryLabel |-> queryLabelOf(query, Undefined),
            rows |-> Arr(<<>>), columns |-> Arr(<<>>), rowCount |-> Num(0),
            status |-> "success",
            error |-> Undefined,
            message |-> Str(text)],
           displayLimit)

\* formatStructured, had the failure branch kept the rows of the outcome.
formatStructured_KeepsRows(obj, query, displayLimit) ==
    prepareResult(
      [queryLabel |-> queryLabelOf(query, obj.query),
       rows       |-> orElse(obj.rows, Arr(<<>>)),
       columns    |-> orElse(obj.columns, Arr(<<>>)),
       rowCount   |-> IF isNumber(obj.row_count) THEN obj.row_count ELSE Undefined,
       status     |-> IF truthy(obj.success) THEN "success" ELSE "error",
       error      |-> IF truthy(obj.success) THEN Undefined ELSE obj.error,
       message    |-> IF truthy(obj.success)
                      THEN orElse(obj.message,
                             Str(TXT_EXECUTED
                                 \o templateString(
                                      orElse(obj.row_count,
                                             IF truthy(obj.rows)
                                             THEN Num(Len(obj.rows.a)) ELSE Num(0)))
                                 \o TXT_ROWS_RETURNED))
                      ELSE Str(TXT_QUERY_FAILED \o templateString(obj.error))],
      displayLimit)

\* The branch for an object with a success field.
formatStructured(obj, query, displayLimit) ==
    IF truthy(obj.success)
    THEN prepareResult(
           [queryLabel |-> queryLabelOf(query, obj.query),
            rows       |-> orElse(obj.rows, Arr(<<>>)),
            columns    |-> orElse(obj.columns, Arr(<<>>)),
            rowCount   |-> IF isNumber(obj.row_count) THEN obj.row_count ELSE Undefined,
            status     |-> "success",
            error      |-> Undefined,
            message    |-> orElse(obj.message,
                             Str(TXT_EXECUTED
                                 \o templateString(
                                      orElse(obj.row_count,
                                             IF truthy(obj.rows)
                                             THEN Num(Len(obj.rows.a)) ELSE Num(0)))
                                 \o TXT_ROWS_RETURNED))],
           displayLimit)
    ELSE prepareResult(
           [queryLabel |-> queryLabelOf(query, obj.query),
            rows |-> Arr(<<>>), columns |-> Arr(<<>>), rowCount |-> Num(0),
            status |-> "error",
            error |-> obj.error,
            message |-> Str(TXT_QUERY_FAILED \o templateString(obj.error))],
           displayLimit)

\* A raw outcome: type is "string", "object", "null" or "undefined".  A string
\* carries its characters and what JSON.parse makes of it: json = "invalid"
\* (a SyntaxError), "null" (the document null) or "document" (any other
\* document, with the fields of the object in obj).
StringOutcome(cs) ==
    [type |-> "string", text |-> cs, json |-> "invalid", obj |-> EmptyObject]

ObjectOutcome(o) == [type |-> "object", text |-> <<>>, json |-> "none", obj |-> o]

formatDatabaseResult(dbResult, query, displayLimit) ==
    IF dbResult.type = "string"
    THEN LET tried == IF dbResult.json = "document"
                      THEN formatParsed(dbResult.obj, query, displayLimit)
                      ELSE Threw
         IN  IF tried.kind = "threw"
             THEN formatUnparsed(dbResult.text, query, displayLimit)
             ELSE tried
    ELSE IF dbResult.type \in {"null", "undefined"}
    THEN Threw
    ELSE IF dbResult.obj.success.t # "undefined"
    THEN formatStructured(dbResult.obj, query, displayLimit)
    ELSE ReturnedRaw

\* ------------------------------------------------------------------------
\* Texts of the database helpers and of the CallTool handler
\* ------------------------------------------------------------------------
\* 'Executed query: '
TXT_EXECUTED_QUERY ==
    <<"E","x","e","c","u","t","e","d"," ","q","u","e","r","y",":"," ">>

\* 'Retrieved sample data'
TXT_RETRIEVED_SAMPLE ==
    <<"R","e","t","r","i","e","v","e","d"," ","s","a","m","p","l","e"," ","d","a","t","a">>

\* 'Retrieved value counts for '
TXT_RETRIEVED_COUNTS ==
    <<"R","e","t","r","i","e","v","e","d"," ","v","a","l","u","e"," ","c","o","u","n","t",
      "s"," ","f","o","r"," ">>

\* 'Column distribution for '
TXT_COLUMN_DISTRIBUTION ==
    <<"C","o","l","u","m","n"," ","d","i","s","t","r","i","b","u","t","i","o","n"," ","f",
      "o","r"," ">>

\* 'digital_insights'
TXT_DIGITAL_INSIGHTS ==
    <<"d","i","g","i","t","a","l","_","i","n","s","i","g","h","t","s">>

\* '\n    SELECT\n      '
TXT_COUNTS_1 ==
    <<"\n"," "," "," "," ","S","E","L","E","C","T","\n"," "," "," "," "," "," ">>

\* ' as value,\n      COUNT(*) as count,\n      ROUND((COUNT(*) * 100.0 / SUM(COUNT(*)) OVER ())::numeric, 2) as percentage\n    FROM '
TXT_COUNTS_2 ==
    <<" ","a","s"," ","v","a","l","u","e",",","\n"," "," "," "," "," "," ","C","O","U","N",
      "T","(","*",")"," ","a","s"," ","c","o","u","n","t",",","\n"," "," "," "," "," "," ",
      "R","O","U","N","D","(","(","C","O","U","N","T","(","*",")"," ","*"," ","1","0","0",
      ".","0"," ","/"," ","S","U","M","(","C","O","U","N","T","(","*",")",")"," ","O","V",
      "E","R"," ","(",")",")",":",":","n","u","m","e","r","i","c",","," ","2",")"," ","a",
      "s"," ","p","e","r","c","e","n","t","a","g","e","\n"," "," "," "," ","F","R","O","M",
      " ">>

\* '\n    WHERE '
TXT_COUNTS_3 ==
    <<"\n"," "," "," "," ","W","H","E","R","E"," ">>

\* ' IS NOT NULL\n    GROUP BY '
TXT_COUNTS_4 ==
    <<" ","I","S"," ","N","O","T"," ","N","U","L","L","\n"," "," "," "," ","G","R","O","U",
      "P"," ","B","Y"," ">>

\* '\n    ORDER BY count DESC\n    LIMIT '
TXT_COUNTS_5 ==
    <<"\n"," "," "," "," ","O","R","D","E","R"," ","B","Y"," ","c","o","u","n","t"," ","D",
      "E","S","C","\n"," "," "," "," ","L","I","M","I","T"," ">>

\* '\n  '
TXT_COUNTS_6 ==
    <<"\n"," "," ">>

\* '{}'
TXT_JSON_DOCUMENT ==
    <<"{","}">>

\* 'SELECT COUNT(*) as total FROM '
TXT_COUNT_QUERY ==
    <<"S","E","L","E","C","T"," ","C","O","U","N","T","(","*",")"," ","a","s"," ","t","o",
      "t","a","l"," ","F","R","O","M"," ">>

\* '\n      SELECT\n        type as platform,\n        COUNT(*) as count,\n        ROUND(AVG(duration_sum)::numeric, 2) as avg_duration_seconds,\n        ROUND((COUNT(*) * 100.0 / SUM(COUNT(*)) OVER ())::numeric, 2) as percentage\n      FROM digital_insights\n      GROUP BY type\n      ORDER BY count DESC\n    '
TXT_PLATFORM_QUERY ==
    <<"\n"," "," "," "," "," "," ","S","E","L","E","C","T","\n"," "," "," "," "," "," "," ",
      " ","t","y","p","e"," ","a","s"," ","p","l","a","t","f","o","r","m",",","\n"," "," ",
      " "," "," "," "," "," ","C","O","U","N","T","(","*",")"," ","a","s"," ","c","o","u",
      "n","t",",","\n"," "," "," "," "," "," "," "," ","R","O","U","N","D","(","A","V","G",
      "(","d","u","r","a","t","i","o","n","_","s","u","m",")",":",":","n","u","m","e","r",
      "i","c",","," ","2",")"," ","a","s"," ","a","v","g","_","d","u","r","a","t","i","o",
      "n","_","s","e","c","o","n","d","s",",","\n"," "," "," "," "," "," "," "," ","R","O",
      "U","N","D","(","(","C","O","U","N","T","(","*",")"," ","*"," ","1","0","0",".","0",
      " ","/"," ","S","U","M","(","C","O","U","N","T","(","*",")",")"," ","O","V","E","R",
      " ","(",")",")",":",":","n","u","m","e","r","i","c",","," ","2",")"," ","a","s"," ",
      "p","e","r","c","e","n","t","a","g","e","\n"," "," "," "," "," "," ","F","R","O","M",
      " ","d","i","g","i","t","a","l","_","i","n","s","i","g","h","t","s","\n"," "," "," ",
      " "," "," ","G","R","O","U","P"," ","B","Y"," ","t","y","p","e","\n"," "," "," "," ",
      " "," ","O","R","D","E","R"," ","B","Y"," ","c","o","u","n","t"," ","D","E","S","C",
      "\n"," "," "," "," ">>

\* 'Database Statistics'
TXT_DATABASE_STATISTICS ==
    <<"D","a","t","a","b","a","s","e"," ","S","t","a","t","i","s","t","i","c","s">>

\* 'Retrieved database statistics'
TXT_RETRIEVED_STATISTICS ==
    <<"R","e","t","r","i","e","v","e","d"," ","d","a","t","a","b","a","s","e"," ","s","t",
      "a","t","i","s","t","i","c","s">>

\* 'Database connection not configured. Set DATABASE_URL environment variable.'
TXT_NOT_CONFIGURED ==
    <<"D","a","t","a","b","a","s","e"," ","c","o","n","n","e","c","t","i","o","n"," ","n",
      "o","t"," ","c","o","n","f","i","g","u","r","e","d","."," ","S","e","t"," ","D","A",
      "T","A","B","A","S","E","_","U","R","L"," ","e","n","v","i","r","o","n","m","e","n",
      "t"," ","v","a","r","i","a","b","l","e",".">>

\* '\n        SELECT\n          column_name,\n          data_type,\n          is_nullable,\n          column_default\n        FROM information_schema.columns\n        WHERE table_name = $1\n        ORDER BY ordinal_position\n      '
TXT_COLUMNS_QUERY ==
    <<"\n"," "," "," "," "," "," "," "," ","S","E","L","E","C","T","\n"," "," "," "," "," ",
      " "," "," "," "," ","c","o","l","u","m","n","_","n","a","m","e",",","\n"," "," "," ",
      " "," "," "," "," "," "," ","d","a","t","a","_","t","y","p","e",",","\n"," "," "," ",
      " "," "," "," "," "," "," ","i","s","_","n","u","l","l","a","b","l","e",",","\n"," ",
      " "," "," "," "," "," "," "," "," ","c","o","l","u","m","n","_","d","e","f","a","u",
      "l","t","\n"," "," "," "," "," "," "," "," ","F","R","O","M"," ","i","n","f","o","r",
      "m","a","t","i","o","n","_","s","c","h","e","m","a",".","c","o","l","u","m","n","s",
      "\n"," "," "," "," "," "," "," "," ","W","H","E","R","E"," ","t","a","b","l","e","_",
      "n","a","m","e"," ","="," ","$","1","\n"," "," "," "," "," "," "," "," ","O","R","D",
      "E","R"," ","B","Y"," ","o","r","d","i","n","a","l","_","p","o","s","i","t","i","o",
      "n","\n"," "," "," "," "," "," ">>

\* "\n        SELECT\n          table_name,\n          table_type\n        FROM information_schema.tables\n        WHERE table_schema = 'public'\n        ORDER BY table_name\n      "
TXT_TABLES_QUERY ==
    <<"\n"," "," "," "," "," "," "," "," ","S","E","L","E","C","T","\n"," "," "," "," "," ",
      " "," "," "," "," ","t","a","b","l","e","_","n","a","m","e",",","\n"," "," "," "," ",
      " "," "," "," "," "," ","t","a","b","l","e","_","t","y","p","e","\n"," "," "," "," ",
      " "," "," "," ","F","R","O","M"," ","i","n","f","o","r","m","a","t","i","o","n","_",
      "s","c","h","e","m","a",".","t","a","b","l","e","s","\n"," "," "," "," "," "," "," ",
      " ","W","H","E","R","E"," ","t","a","b","l","e","_","s","c","h","e","m","a"," ","=",
      " ","'","p","u","b","l","i","c","'","\n"," "," "," "," "," "," "," "," ","O","R","D",
      "E","R"," ","B","Y"," ","t","a","b","l","e","_","n","a","m","e","\n"," "," "," "," ",
      " "," ">>

\* 'Failed to fetch schema'
TXT_FAILED_FETCH ==
    <<"F","a","i","l","e","d"," ","t","o"," ","f","e","t","c","h"," ","s","c","h","e","m",
      "a">>

\* 'Failed to list tables'
TXT_FAILED_LIST ==
    <<"F","a","i","l","e","d"," ","t","o"," ","l","i","s","t"," ","t","a","b","l","e","s">>

\* 'DESCRIBE TABLE '
TXT_DESCRIBE_TABLE ==
    <<"D","E","S","C","R","I","B","E"," ","T","A","B","L","E"," ">>

\* 'SHOW TABLES'
TXT_SHOW_TABLES ==
    <<"S","H","O","W"," ","T","A","B","L","E","S">>

\* "Schema for table '"
TXT_SCHEMA_FOR ==
    <<"S","c","h","e","m","a"," ","f","o","r"," ","t","a","b","l","e"," ","'">>

\* "': "
TXT_SCHEMA_SEP ==
    <<"'",":"," ">>

\* ' columns'
TXT_SCHEMA_COLUMNS ==
    <<" ","c","o","l","u","m","n","s">>

\* 'Found '
TXT_FOUND ==
    <<"F","o","u","n","d"," ">>

\* ' tables in the database'
TXT_TABLES_IN ==
    <<" ","t","a","b","l","e","s"," ","i","n"," ","t","h","e"," ","d","a","t","a","b","a",
      "s","e">>

\* 'Retrieved schema information'
TXT_RETRIEVED_SCHEMA ==
    <<"R","e","t","r","i","e","v","e","d"," ","s","c","h","e","m","a"," ","i","n","f","o",
      "r","m","a","t","i","o","n">>

\* 'Welcome to Vdata Analytics'
TXT_WELCOME ==
    <<"W","e","l","c","o","m","e"," ","t","o"," ","V","d","a","t","a"," ","A","n","a","l",
      "y","t","i","c","s">>

\* 'Database not connected. Please configure DATABASE_URL environment variable.'
TXT_NOT_CONNECTED ==
    <<"D","a","t","a","b","a","s","e"," ","n","o","t"," ","c","o","n","n","e","c","t","e",
      "d","."," ","P","l","e","a","s","e"," ","c","o","n","f","i","g","u","r","e"," ","D",
      "A","T","A","B","A","S","E","_","U","R","L"," ","e","n","v","i","r","o","n","m","e",
      "n","t"," ","v","a","r","i","a","b","l","e",".">>

\* "SELECT COUNT(*) as table_count FROM information_schema.tables WHERE table_schema = 'public'"
TXT_TABLE_COUNT_QUERY ==
    <<"S","E","L","E","C","T"," ","C","O","U","N","T","(","*",")"," ","a","s"," ","t","a",
      "b","l","e","_","c","o","u","n","t"," ","F","R","O","M"," ","i","n","f","o","r","m",
      "a","t","i","o","n","_","s","c","h","e","m","a",".","t","a","b","l","e","s"," ","W",
      "H","E","R","E"," ","t","a","b","l","e","_","s","c","h","e","m","a"," ","="," ","'",
      "p","u","b","l","i","c","'">>

\* '. Connected to database with '
TXT_CONNECTED_WITH ==
    <<"."," ","C","o","n","n","e","c","t","e","d"," ","t","o"," ","d","a","t","a","b","a",
      "s","e"," ","w","i","t","h"," ">>

\* ' tables.'
TXT_TABLES_DOT ==
    <<" ","t","a","b","l","e","s",".">>

\* 'Failed to connect to database: '
TXT_FAILED_CONNECT ==
    <<"F","a","i","l","e","d"," ","t","o"," ","c","o","n","n","e","c","t"," ","t","o"," ",
      "d","a","t","a","b","a","s","e",":"," ">>

\* 'Unknown tool: '
TXT_UNKNOWN_TOOL ==
    <<"U","n","k","n","o","w","n"," ","t","o","o","l",":"," ">>

\* '[\n  {\n    "code": "invalid_type",\n    "expected": "'
TXT_ZOD_1 ==
    <<"[","\n"," "," ","{","\n"," "," "," "," ","\"","c","o","d","e","\"",":"," ","\"","i",
      "n","v","a","l","i","d","_","t","y","p","e","\"",",","\n"," "," "," "," ","\"","e",
      "x","p","e","c","t","e","d","\"",":"," ","\"">>

\* '",\n    "received": "'
TXT_ZOD_2 ==
    <<"\"",",","\n"," "," "," "," ","\"","r","e","c","e","i","v","e","d","\"",":"," ","\"">>

\* '",\n    "path": [\n      "'
TXT_ZOD_3 ==
    <<"\"",",","\n"," "," "," "," ","\"","p","a","t","h","\"",":"," ","[","\n"," "," "," ",
      " "," "," ","\"">>

\* '"\n    ],\n    "message": "'
TXT_ZOD_4 ==
    <<"\"","\n"," "," "," "," ","]",",","\n"," "," "," "," ","\"","m","e","s","s","a","g",
      "e","\"",":"," ","\"">>

\* '"\n  }\n]'
TXT_ZOD_5 ==
    <<"\"","\n"," "," ","}","\n","]">>


\* ------------------------------------------------------------------------
\* executeQuery, getPool and the database helpers
\* ------------------------------------------------------------------------
DatabaseTypes == {"main", "hul"}

dbTypeName(dbType) == IF dbType = "hul" THEN TXT_HUL ELSE TXT_MAIN

\* { success: false, error }
failure(error) == [EmptyObject EXCEPT !["success"] = Bool(FALSE), !["error"] = error]

\* getPool, had it refused a type whose pool another call already made.
getPool_ThrowsWhenPresent(dbType, poolSet, urls) ==
    IF dbType \in poolSet \/ dbType \notin urls
    THEN [threw |-> TRUE, pools |-> poolSet, created |-> FALSE]
    ELSE [threw |-> FALSE, pools |-> poolSet \cup {dbType}, created |-> TRUE]

\* getPool, had it made a new pool on every call.
getPool_AlwaysCreates(dbType, poolSet, urls) ==
    IF dbType \notin urls /\ dbType \notin poolSet
    THEN [threw |-> TRUE, pools |-> poolSet, created |-> FALSE]
    ELSE [threw |-> FALSE, pools |-> poolSet \cup {dbType}, created |-> TRUE]

\* getPool: urls is the set of database types whose URL is configured.  The
\* pool map is the set of types that have a pool.
getPool(dbType, poolSet, urls) ==
    IF dbType \in poolSet
    THEN [threw |-> FALSE, pools |-> poolSet, created |-> FALSE]
    ELSE IF dbType \notin urls
    THEN [threw |-> TRUE, pools |-> poolSet, created |-> FALSE]
    ELSE [threw |-> FALSE, pools |-> poolSet \cup {dbType}, created |-> TRUE]

\* executeQueryStart, had the early return on an invalid verdict been left out.
executeQueryStart_Unguarded(q, lim, dbType, poolSet, urls) ==
    LET v == validateQuery(q)
        g == getPool(dbType, poolSet, urls)
    IN  IF g.threw
        THEN [awaiting |-> FALSE,
              result |-> failure(Str(TXT_URL_NOT_CONFIGURED \o dbTypeName(dbType))),
              validation |-> v, sent |-> None, pools |-> g.pools, gotPool |-> FALSE]
        ELSE [awaiting |-> TRUE, result |-> EmptyObject,
              validation |-> v, sent |-> Some(finalQueryOf(q, lim)),
              pools |-> g.pools, gotPool |-> TRUE]

\* executeQuery up to its await: either it has returned (awaiting = FALSE, the
\* value in result) or client.query(sent) is pending.
executeQueryStart(q, lim, dbType, poolSet, urls) ==
    LET v == validateQuery(q)
        g == getPool(dbType, poolSet, urls)
    IN  IF ~v.valid
        THEN [awaiting |-> FALSE, result |-> failure(Str(v.error[1])),
              validation |-> v, sent |-> None, pools |-> poolSet, gotPool |-> FALSE]
        ELSE IF g.threw
        THEN [awaiting |-> FALSE,
              result |-> failure(Str(TXT_URL_NOT_CONFIGURED \o dbTypeName(dbType))),
              validation |-> v, sent |-> None, pools |-> g.pools, gotPool |-> FALSE]
        ELSE [awaiting |-> TRUE, result |-> EmptyObject,
              validation |-> v, sent |-> Some(finalQueryOf(q, lim)),
              pools |-> g.pools, gotPool |-> TRUE]

\* executeQuery after client.query settled: outcome.ok with fields and rows, or
\* a rejection whose error has outcome.message.
executeQueryFinish(outcome) ==
    IF outcome.ok
    THEN [EmptyObject EXCEPT
            !["success"]   = Bool(TRUE),
            !["rows"]      = Arr(outcome.rows),
            !["columns"]   = Arr([i \in 1..Len(outcome.fields) |->
                                    StrElem(outcome.fields[i])]),
            !["row_count"] = Num(Len(outcome.rows))]
    ELSE failure(outcome.message)

\* JSON.stringify(o) of a helper, as the raw outcome the normalizer receives:
\* the document is kept as the value JSON.parse gives back for it.
jsonStringify(o) ==
    [type |-> "string", text |-> TXT_JSON_DOCUMENT, json |-> "document", obj |-> o]

\* `Error: ${result.error}`
errorString(result) == StringOutcome(TXT_ERROR_PREFIX_SP \o templateString(result.error))

\* getSampleData(limit): the query text it builds.
sampleDataQuery(limit) ==
    TXT_SAMPLE_QUERY
    \o numberToString(mathMin(IF limit = None THEN 10 ELSE limit[1], 100))

\* getSampleData: what it returns for executeQuery's result.
getSampleDataReturn(result) ==
    IF truthy(result.success)
    THEN jsonStringify([EmptyObject EXCEPT
                          !["sample_size"] = result.row_count,
                          !["columns"]     = result.columns,
                          !["data"]        = result.rows])
    ELSE errorString(result)

\* getColumnValueCounts(columnName, limit): the query text it builds.
columnValueCountsQuery(columnName, limit) ==
    TXT_COUNTS_1 \o columnName \o TXT_COUNTS_2 \o TXT_DIGITAL_INSIGHTS
    \o TXT_COUNTS_3 \o columnName \o TXT_COUNTS_4 \o columnName \o TXT_COUNTS_5
    \o numberToString(mathMin(IF limit = None THEN 20 ELSE limit[1], 100))
    \o TXT_COUNTS_6

\* getColumnValueCounts: what it returns for executeQuery's result.
getColumnValueCountsReturn(result) ==
    IF truthy(result.success)
    THEN jsonStringify([EmptyObject EXCEPT
                          !["unique_values"] = result.row_count,
                          !["distribution"]  = result.rows])
    ELSE errorString(result)

\* row.total or row.table_count of the one row a COUNT(*) query returns: the
\* driver hands an int8 to the program as a string of digits.
countValue(row) == Str(natToString(row.vals[1]))

\* getDatabaseStatistics(): the two query texts it builds.
countQuery == TXT_COUNT_QUERY \o TXT_DIGITAL_INSIGHTS

platformQuery == TXT_PLATFORM_QUERY

\* getDatabaseStatistics: what it returns for the results of its two queries.
getDatabaseStatisticsReturn(countResult, platformResult) ==
    IF truthy(countResult.success) /\ truthy(platformResult.success)
    THEN jsonStringify([EmptyObject EXCEPT
                          !["total_rows"] = countValue(countResult.rows.a[1]),
                          !["platforms"]  = platformResult.rows])
    ELSE StringOutcome(TXT_ERROR_PREFIX_SP
                       \o templateString(orElse(countResult.error, platformResult.error)))

\* ------------------------------------------------------------------------
\* The CallTool handler
\* ------------------------------------------------------------------------
NoResponse ==
    [kind |-> "none", structured |-> NoResult, text |-> <<>>, isError |-> FALSE]

\* caughtResponse, had the catch block left isError out.
caughtResponse_NotFlagged(message) ==
    [kind |-> "caught",
     structured |-> [NoResult EXCEPT
                       !.status = "error",
                       !.error = Some(message),
                       !.message = Some(TXT_ERROR_PREFIX_SP \o message)],
     text |-> TXT_ERROR_PREFIX_SP \o message,
     isError |-> FALSE]

\* The catch block of the handler, for an exception with the given message.
caughtResponse(message) ==
    [kind |-> "caught",
     structured |-> [NoResult EXCEPT
                       !.status = "error",
                       !.error = Some(message),
                       !.message = Some(TXT_ERROR_PREFIX_SP \o message)],
     text |-> TXT_ERROR_PREFIX_SP \o message,
     isError |-> TRUE]

\* The message of the TypeError the engine raises when the normalizer reads
\* .success of null (V8's wording).
\* "Cannot read properties of null (reading 'success')"
TXT_TYPE_ERROR ==
    <<"C","a","n","n","o","t"," ","r","e","a","d"," ","p","r","o","p","e","r","t","i","e",
      "s"," ","o","f"," ","n","u","l","l"," ","(","r","e","a","d","i","n","g"," ","'","s",
      "u","c","c","e","s","s","'",")">>

\* return { content: [{ text: result.message || fallback }], structuredContent: result }
toolResponse(formatted, fallback) ==
    IF formatted.kind = "threw"
    THEN caughtResponse(TXT_TYPE_ERROR)
    ELSE [kind |-> IF formatted.kind = "raw" THEN "raw" ELSE "result",
          structured |-> formatted.value,
          text |-> IF formatted.value.message # None
                      /\ formatted.value.message[1] # <<>>
                   THEN formatted.value.message[1] ELSE fallback,
          isError |-> FALSE]

\* formatCall, had the display cap been passed for every tool.
formatCall_CapEverywhere(name, args, result) ==
    CASE name = "run_query" ->
           [dbResult |-> ObjectOutcome(result),
            label |-> Some(args.query),
            displayLimit |-> Some(RAW_DATA_EXPORT_ROW_CAP)]
      [] name = "get_sample_data" ->
           [dbResult |-> getSampleDataReturn(result),
            label |-> Some(TXT_SAMPLE_QUERY
                           \o numberToString(IF args.limit # None /\ args.limit[1] # 0
                                             THEN args.limit[1] ELSE 10)),
            displayLimit |-> Some(RAW_DATA_EXPORT_ROW_CAP)]
      [] OTHER ->
           [dbResult |-> getColumnValueCountsReturn(result),
            label |-> Some(TXT_COLUMN_DISTRIBUTION \o args.columnName),
            displayLimit |-> Some(RAW_DATA_EXPORT_ROW_CAP)]

\* The handler's call of formatDatabaseResult once executeQuery's result is
\* known: the raw outcome (dbResult), the query label and options.displayLimit.
\* args: query and columnName (texts), limit (optional number).
formatCall(name, args, result) ==
    CASE name = "run_query" ->
           [dbResult |-> ObjectOutcome(result),
            label |-> Some(args.query),
            displayLimit |-> Some(RAW_DATA_EXPORT_ROW_CAP)]
      [] name = "get_sample_data" ->
           [dbResult |-> getSampleDataReturn(result),
            label |-> Some(TXT_SAMPLE_QUERY
                           \o numberToString(IF args.limit # None /\ args.limit[1] # 0
                                             THEN args.limit[1] ELSE 10)),
            displayLimit |-> None]
      [] OTHER ->
           [dbResult |-> getColumnValueCountsReturn(result),
            label |-> Some(TXT_COLUMN_DISTRIBUTION \o args.columnName),
            displayLimit |-> None]

\* The text the handler falls back to when the result has no message.
fallbackText(name, args) ==
    CASE name = "run_query" -> TXT_EXECUTED_QUERY \o args.query
      [] name = "get_sample_data" -> TXT_RETRIEVED_SAMPLE
      [] OTHER -> TXT_RETRIEVED_COUNTS \o args.columnName

\* The handler's call of formatDatabaseResult for get_database_statistics.
statisticsCall(countResult, platformResult) ==
    [dbResult |-> getDatabaseStatisticsReturn(countResult, platformResult),
     label |-> Some(TXT_DATABASE_STATISTICS),
     displayLimit |-> None]

\* isDatabaseConfigured = !!DATABASE_URL
isDatabaseConfigured(urls) == "main" \in urls

\* if (tableName): an optional text that is given and not empty.
given(text) == text # None /\ text[1] # <<>>

\* getSchemaInfo(tableName): the query text it hands to executeQuery.
schemaQuery(tableName) ==
    IF given(tableName) THEN TXT_COLUMNS_QUERY ELSE TXT_TABLES_QUERY

\* getSchemaInfo: what it returns for executeQuery's result (a failure is
\* thrown inside its try block and comes back from its catch block).
getSchemaInfoReturn(tableName, result) ==
    LET label == IF given(tableName) THEN TXT_DESCRIBE_TABLE \o tableName[1]
                 ELSE TXT_SHOW_TABLES
        rows == IF isArray(result.rows) THEN result.rows.a ELSE <<>>
        rowCount == IF isNumber(result.row_count) THEN result.row_count.n ELSE Len(rows)
    IN  IF ~truthy(result.success)
        THEN [NoResult EXCEPT
                !.query = label,
                !.status = "error",
                !.error = Some(orElse(result.error,
                                      Str(IF given(tableName) THEN TXT_FAILED_FETCH
                                          ELSE TXT_FAILED_LIST)).s)]
        ELSE IF given(tableName)
        THEN [NoResult EXCEPT
                !.query = label,
                !.results = rows,
                !.columns = <<"column_name", "data_type", "is_nullable", "column_default">>,
                !.rowCount = rowCount,
                !.status = "success",
                !.message = Some(TXT_SCHEMA_FOR \o tableName[1] \o TXT_SCHEMA_SEP
                                 \o numberToString(rowCount) \o TXT_SCHEMA_COLUMNS)]
        ELSE [NoResult EXCEPT
                !.query = label,
                !.results = rows,
                !.columns = <<"table_name", "table_type">>,
                !.rowCount = rowCount,
                !.status = "success",
                !.message = Some(TXT_FOUND \o numberToString(rowCount) \o TXT_TABLES_IN)]

\* message || "Welcome to Vdata Analytics"
welcomeMessage(message) == IF given(message) THEN message[1] ELSE TXT_WELCOME

\* initializeDashboard: what it returns when no database is configured.
dashboardNotConnected(message) ==
    [NoResult EXCEPT
       !.status = "error",
       !.message = Some(welcomeMessage(message)),
       !.error = Some(TXT_NOT_CONNECTED)]

\* initializeDashboard: what it returns for executeQuery's result.
initializeDashboardReturn(message, schemaResult) ==
    IF truthy(schemaResult.success)
    THEN [NoResult EXCEPT
            !.status = "success",
            !.message = Some(welcomeMessage(message) \o TXT_CONNECTED_WITH
                             \o templateString(countValue(schemaResult.rows.a[1]))
                             \o TXT_TABLES_DOT)]
    ELSE [NoResult EXCEPT
            !.status = "error",
            !.message = Some(welcomeMessage(message)),
            !.error = Some(TXT_FAILED_CONNECT \o templateString(schemaResult.error))]

\* return { content: [{ text: result.message || fallback }], structuredContent: result }
\* for a result a helper built itself.
helperResponse(result, fallback) ==
    [kind |-> "result",
     structured |-> result,
     text |-> IF result.message # None /\ result.message[1] # <<>>
              THEN result.message[1] ELSE fallback,
     isError |-> FALSE]

\* The message of the ZodError schema.parse throws for one invalid_type issue.
zodMessage(expected, received, path, message) ==
    TXT_ZOD_1 \o expected \o TXT_ZOD_2 \o received \o TXT_ZOD_3 \o path
    \o TXT_ZOD_4 \o message \o TXT_ZOD_5

\* The tools whose arguments go through schema.parse, each with arguments its
\* schema rejects: a required text left out, or a value of the wrong type.
rejection(name) ==
    CASE name = "run_query" ->
           zodMessage(<<"s","t","r","i","n","g">>,
                      <<"u","n","d","e","f","i","n","e","d">>,
                      <<"q","u","e","r","y">>,
                      <<"R","e","q","u","i","r","e","d">>)
      [] name = "get_column_value_counts" ->
           zodMessage(<<"s","t","r","i","n","g">>,
                      <<"u","n","d","e","f","i","n","e","d">>,
                      <<"c","o","l","u","m","n","N","a","m","e">>,
                      <<"R","e","q","u","i","r","e","d">>)
      [] name = "get_sample_data" ->
           zodMessage(<<"n","u","m","b","e","r">>,
                      <<"s","t","r","i","n","g">>,
                      <<"l","i","m","i","t">>,
                      <<"E","x","p","e","c","t","e","d"," ","n","u","m","b","e","r",","," ",
                        "r","e","c","e","i","v","e","d"," ","s","t","r","i","n","g">>)
      [] name = "get_schema" ->
           zodMessage(<<"s","t","r","i","n","g">>,
                      <<"n","u","m","b","e","r">>,
                      <<"t","a","b","l","e","N","a","m","e">>,
                      <<"E","x","p","e","c","t","e","d"," ","s","t","r","i","n","g",","," ",
                        "r","e","c","e","i","v","e","d"," ","n","u","m","b","e","r">>)
      [] OTHER ->
           zodMessage(<<"s","t","r","i","n","g">>,
                      <<"n","u","m","b","e","r">>,
                      <<"m","e","s","s","a","g","e">>,
                      <<"E","x","p","e","c","t","e","d"," ","s","t","r","i","n","g",","," ",
                        "r","e","c","e","i","v","e","d"," ","n","u","m","b","e","r">>)

ParsingTools ==
    {"initialize_dashboard", "run_query", "get_schema", "get_sample_data",
     "get_column_value_counts"}

\* ------------------------------------------------------------------------
\* Inputs
\* ------------------------------------------------------------------------
\* 'relation "x" does not exist'
ERR_RELATION ==
    <<"r","e","l","a","t","i","o","n"," ","\"","x","\""," ","d","o","e","s"," ","n","o","t",
      " ","e","x","i","s","t">>

\* 'SELECT'
F_SELECT ==
    <<"S","E","L","E","C","T">>

\* 'select a'
F_select_a ==
    <<"s","e","l","e","c","t"," ","a">>

\* ' '
F_SPACE ==
    <<" ">>

\* 'ED'
F_ED ==
    <<"E","D">>

\* ' * FROM t'
F_FROM_T ==
    <<" ","*"," ","F","R","O","M"," ","t">>

\* ', created_at FROM t'
F_CREATED_AT ==
    <<","," ","c","r","e","a","t","e","d","_","a","t"," ","F","R","O","M"," ","t">>

\* '; DROP TABLE t'
F_DROP_TABLE ==
    <<";"," ","D","R","O","P"," ","T","A","B","L","E"," ","t">>

\* ' LIMIT 10'
F_LIMIT_10 ==
    <<" ","L","I","M","I","T"," ","1","0">>

\* ' limit 5;'
F_limit_5 ==
    <<" ","l","i","m","i","t"," ","5",";">>

\* ';'
F_SEMI ==
    <<";">>

\* 'gender'
COL_GENDER ==
    <<"g","e","n","d","e","r">>

\* 'drop_rate'
COL_DROP_RATE ==
    <<"d","r","o","p","_","r","a","t","e">>

\* 'created_at'
COL_CREATED_AT ==
    <<"c","r","e","a","t","e","d","_","a","t">>

\* 'updated_at'
COL_UPDATED_AT ==
    <<"u","p","d","a","t","e","d","_","a","t">>

\* 'deleted'
COL_DELETED ==
    <<"d","e","l","e","t","e","d">>

\* 'inserted_by'
COL_INSERTED_BY ==
    <<"i","n","s","e","r","t","e","d","_","b","y">>

\* 'alternate'
COL_ALTERNATE ==
    <<"a","l","t","e","r","n","a","t","e">>

\* 'truncated'
COL_TRUNCATED ==
    <<"t","r","u","n","c","a","t","e","d">>

\* The pieces a caller's SQL text is put together from.
QueryFragments ==
    {F_SELECT, F_select_a, F_SPACE, F_ED, F_FROM_T, F_CREATED_AT,
     F_DROP_TABLE, F_LIMIT_10, F_limit_5, F_SEMI}

\* The most fragments in one SQL text.
MaxFrags == 3

RECURSIVE textsOf(_)
textsOf(n) ==
    IF n = 0 THEN {<<>>}
    ELSE LET shorter == textsOf(n - 1)
         IN  shorter \cup {t \o f : t \in shorter, f \in QueryFragments}

Queries == textsOf(MaxFrags)

ColumnNames ==
    {COL_GENDER, COL_DROP_RATE, COL_CREATED_AT, COL_UPDATED_AT, COL_DELETED,
     COL_INSERTED_BY, COL_ALTERNATE, COL_TRUNCATED}

\* The limit argument: not given, or a number.
Limits == {None, Some(0), Some(7), Some(5000)}

\* The most rows the database returns for one query.
MaxDbRows == 6

DbRow(i) == RowObj(<<"id", "v">>, <<i, i * i>>)

\* What client.query may settle with: a result set, or a rejection with the
\* driver's message (empty for an AggregateError).
DbOutcomes ==
    {[ok |-> TRUE, fields |-> <<"id", "v">>, rows |-> [i \in 1..n |-> DbRow(i)],
      message |-> Undefined] : n \in 0..MaxDbRows}
    \cup {[ok |-> FALSE, fields |-> <<>>, rows |-> <<>>, message |-> m] :
            m \in {Str(ERR_RELATION), Str(<<>>)}}

\* What client.query settles with for a COUNT(*) query without GROUP BY: one
\* row with the count under the given name, or a rejection.
CountOutcomes(name) ==
    {[ok |-> TRUE, fields |-> <<name>>, rows |-> <<RowObj(<<name>>, <<n>>)>>,
      message |-> Undefined] : n \in {0, 9}}
    \cup {[ok |-> FALSE, fields |-> <<>>, rows |-> <<>>, message |-> m] :
            m \in {Str(ERR_RELATION), Str(<<>>)}}

\* 't'
F_T ==
    <<"t">>

\* 'Hi'
F_HI ==
    <<"H","i">>

\* 'export_all'
F_EXPORT_ALL ==
    <<"e","x","p","o","r","t","_","a","l","l">>

\* The tableName argument of get_schema and the message argument of
\* initialize_dashboard: not given, empty, or a text.
TableNames == {None, Some(<<>>), Some(F_T)}

Messages == {None, Some(<<>>), Some(F_HI)}

\* Tool names the switch has no case for.
UnknownNames == {<<>>, F_EXPORT_ALL}

NoArgs ==
    [query |-> <<>>, limit |-> None, columnName |-> <<>>,
     tableName |-> None, message |-> None, name |-> <<>>]

\* ------------------------------------------------------------------------
\* State
\* ------------------------------------------------------------------------
VARIABLES
    urls,         \* the database types whose URL the environment configures
    pools,        \* the pool map: the database types that have a pool
    pc,           \* the handler: "idle", "querying" (awaiting client.query), "done"
    tool,         \* the tool being called
    args,         \* its arguments
    query,        \* the text handed to executeQuery
    limit,        \* the limit handed to executeQuery
    validation,   \* validateQuery's verdict on query
    sent,         \* the text given to client.query by this call, if any
    gotPool,      \* whether this call obtained a pool
    dbResult,     \* the raw outcome handed to formatDatabaseResult
    label,        \* its query argument
    displayLimit, \* its options.displayLimit
    formatted,    \* what formatDatabaseResult returned
    response,     \* what the handler returned
    countResult,  \* getDatabaseStatistics: the result of its first query
    fetched,      \* result.rows of the last result set client.query gave the call
    sessions,     \* the sessions map: sessionId -> {server, transport}
    transports,   \* every SSE transport made so far: its connect and its close
    posted,       \* the last POST /mcp/messages and what became of it
    calls,        \* tool invocations in flight, one frame per session
    made,         \* per database type, how many pools new Pool() has made
    endedPools,   \* the pools pool.end() was called on
    closing       \* closePool: where its loop over the pool map stands

\* What the HTTP server and the pool manager keep besides the pool map.
serverVars == <<sessions, transports, posted, calls, made, endedPools, closing>>

vars ==
    <<urls, pools, pc, tool, args, query, limit, validation, sent, gotPool,
      dbResult, label, displayLimit, formatted, response, countResult, fetched,
      sessions, transports, posted, calls, made, endedPools, closing>>

\* ---------------------------------------------------------------------------
\* The HTTP server: SSE sessions and posted messages

\* sessions.set(sessionId, record)
sessionsSet(map, sessionId, record) ==
    [k \in DOMAIN map \cup {sessionId} |-> IF k = sessionId THEN record ELSE map[k]]

\* sessions.delete, had it dropped every entry.
sessionsDelete_Clear(map, sessionId) == [k \in {} |-> map[k]]

\* sessions.delete(sessionId)
sessionsDelete(map, sessionId) == [k \in DOMAIN map \ {sessionId} |-> map[k]]

NoSessions == [k \in {} |-> 0]

\* new SSEServerTransport(postPath, res): the k-th transport made carries the
\* k-th session id; its server.connect is pending and it is not closed.
newTransport(k) == [sessionId |-> k, connect |-> "pending", closed |-> FALSE]

\* The { server, transport } record of the k-th GET /mcp: the Server made by
\* createVdataServer() for it and its transport.
sessionRecord(k) == [server |-> k, transport |-> k]

NoPost == [sessionId |-> None, status |-> "none", transport |-> None]

\* handlePostMessage, had an unknown sessionId fallen back to some session of
\* the map.
handlePostMessage_AnySession(sessionId, map, threw) ==
    IF sessionId = None
    THEN [sessionId |-> sessionId, status |-> "400", transport |-> None]
    ELSE IF DOMAIN map = {}
    THEN [sessionId |-> sessionId, status |-> "404", transport |-> None]
    ELSE [sessionId |-> sessionId,
          status |-> IF threw THEN "500" ELSE "transport",
          transport |-> Some(map[IF sessionId[1] \in DOMAIN map THEN sessionId[1]
                                 ELSE CHOOSE k \in DOMAIN map : TRUE].transport)]

\* handlePostMessage: sessionId is the query parameter (None when absent),
\* threw tells whether transport.handlePostMessage rejects.  transport is the
\* transport the request was handed to, status the answer the handler itself
\* writes ("transport" when the transport is left to answer).
handlePostMessage(sessionId, map, threw) ==
    IF sessionId = None
    THEN [sessionId |-> sessionId, status |-> "400", transport |-> None]
    ELSE IF sessionId[1] \notin DOMAIN map
    THEN [sessionId |-> sessionId, status |-> "404", transport |-> None]
    ELSE [sessionId |-> sessionId,
          status |-> IF threw THEN "500" ELSE "transport",
          transport |-> Some(map[sessionId[1]].transport)]

\* No invocation frame, no pool made or ended, closePool not running.
NoCalls == <<>>

NotClosing == [running |-> FALSE, visited |-> {}]

NoServer ==
    /\ sessions = NoSessions
    /\ transports = <<>>
    /\ posted = NoPost
    /\ calls = NoCalls
    /\ made = [t \in DatabaseTypes |-> 0]
    /\ endedPools = {}
    /\ closing = NotClosing

NoValidation == [valid |-> FALSE, error |-> None]

NoOutcome == [type |-> "none", text |-> <<>>, json |-> "none", obj |-> EmptyObject]

NotFormatted == [kind |-> "none", value |-> NoResult]

\* No call in flight.
Idle ==
    /\ pc = "idle"
    /\ tool = "none"
    /\ args = NoArgs
    /\ query = <<>>
    /\ limit = None
    /\ validation = NoValidation
    /\ sent = None
    /\ gotPool = FALSE
    /\ dbResult = NoOutcome
    /\ label = None
    /\ displayLimit = None
    /\ formatted = NotFormatted
    /\ response = NoResponse
    /\ countResult = EmptyObject
    /\ fetched = <<>>

Init ==
    /\ urls \in SUBSET {"main"}
    /\ pools = {}
    /\ Idle
    /\ NoServer

\* The handler after its helper returned: the helper's return value goes
\* through formatDatabaseResult(call.dbResult, call.label, options) and into
\* the response.
Format(call, fallback) ==
    \E out \in {formatDatabaseResult(call.dbResult, call.label, call.displayLimit)} :
        /\ dbResult' = call.dbResult
        /\ label' = call.label
        /\ displayLimit' = call.displayLimit
        /\ formatted' = out
        /\ response' = toolResponse(out, fallback)
        /\ pc' = "done"

\* run_query, get_sample_data and get_column_value_counts after executeQuery
\* returned result.
Complete(name, a, result) ==
    Format(formatCall(name, a, result), fallbackText(name, a))

\* The handler returns what its helper built, or what its catch block makes
\* of an exception: formatDatabaseResult is not called.
Return(resp) ==
    /\ response' = resp
    /\ pc' = "done"
    /\ UNCHANGED <<dbResult, label, displayLimit, formatted>>

\* The handler once the last executeQuery of the tool returned result; held is
\* the result of getDatabaseStatistics' first query.
Conclude(name, a, held, result) ==
    IF name = "get_database_statistics"
    THEN Format(statisticsCall(held, result), TXT_RETRIEVED_STATISTICS)
    ELSE IF name = "get_schema"
    THEN Return(helperResponse(getSchemaInfoReturn(a.tableName, result),
                               TXT_RETRIEVED_SCHEMA))
    ELSE IF name \in {"initialize_dashboard", "show_vdata_app"}
    THEN Return(helperResponse(initializeDashboardReturn(a.message, result), <<>>))
    ELSE Complete(name, a, result)

\* One executeQuery(q, lim) of the tool, up to its await: it either returns,
\* and the handler with it, or leaves client.query pending.
Execute(name, a, held, q, lim) ==
    \E started \in {executeQueryStart(q, lim, "main", pools, urls)} :
        /\ tool' = name
        /\ args' = a
        /\ query' = q
        /\ limit' = lim
        /\ validation' = started.validation
        /\ sent' = started.sent
        /\ gotPool' = started.gotPool
        /\ pools' = started.pools
        /\ countResult' = held
        /\ IF started.awaiting
           THEN /\ pc' = "querying"
                /\ UNCHANGED <<dbResult, label, displayLimit, formatted, response>>
           ELSE Conclude(name, a, held, started.result)
        /\ UNCHANGED <<serverVars, urls, fetched>>

\* The handler (entered with no call in flight) from its entry to the first
\* await that does not settle at once.
Invoke(name, a, q, lim) == Execute(name, a, EmptyObject, q, lim)

CallRunQuery ==
    /\ pc = "idle"
    /\ \E q \in Queries, l \in Limits :
         Invoke("run_query", [NoArgs EXCEPT !.query = q, !.limit = l], q, l)

CallGetSampleData ==
    /\ pc = "idle"
    /\ \E l \in Limits :
         Invoke("get_sample_data", [NoArgs EXCEPT !.limit = l],
                sampleDataQuery(l), None)

CallGetColumnValueCounts ==
    /\ pc = "idle"
    /\ \E c \in ColumnNames, l \in Limits :
         Invoke("get_column_value_counts",
                [NoArgs EXCEPT !.columnName = c, !.limit = l],
                columnValueCountsQuery(c, l), None)

\* getDatabaseStatistics after its first executeQuery returned countResult:
\* the second executeQuery starts.
Platforms(c) == Execute("get_database_statistics", NoArgs, c, platformQuery, None)

\* get_database_statistics: the first executeQuery either leaves client.query
\* pending or returns at once, and the second one follows.
CallGetDatabaseStatistics ==
    /\ pc = "idle"
    /\ \E started \in {executeQueryStart(countQuery, None, "main", pools, urls)} :
         IF started.awaiting
         THEN /\ pc' = "counting"
              /\ tool' = "get_database_statistics"
              /\ query' = countQuery
              /\ validation' = started.validation
              /\ sent' = started.sent
              /\ gotPool' = started.gotPool
              /\ pools' = started.pools
              /\ UNCHANGED <<serverVars, urls, args, limit, dbResult, label, displayLimit,
                             formatted, response, countResult, fetched>>
         ELSE Platforms(started.result)

\* get_schema: getSchemaInfo throws when no database is configured, and runs
\* one query otherwise.
CallGetSchema ==
    /\ pc = "idle"
    /\ \E t \in TableNames :
         IF isDatabaseConfigured(urls)
         THEN Invoke("get_schema", [NoArgs EXCEPT !.tableName = t],
                     schemaQuery(t), None)
         ELSE /\ tool' = "get_schema"
              /\ args' = [NoArgs EXCEPT !.tableName = t]
              /\ Return(caughtResponse(TXT_NOT_CONFIGURED))
              /\ UNCHANGED <<serverVars, urls, pools, query, limit, validation, sent, gotPool,
                             countResult, fetched>>

\* initialize_dashboard and its alias show_vdata_app.
CallInitializeDashboard ==
    /\ pc = "idle"
    /\ \E n \in {"initialize_dashboard", "show_vdata_app"}, m \in Messages :
         IF isDatabaseConfigured(urls)
         THEN Invoke(n, [NoArgs EXCEPT !.message = m], TXT_TABLE_COUNT_QUERY, None)
         ELSE /\ tool' = n
              /\ args' = [NoArgs EXCEPT !.message = m]
              /\ Return(helperResponse(dashboardNotConnected(m), <<>>))
              /\ UNCHANGED <<serverVars, urls, pools, query, limit, validation, sent, gotPool,
                             countResult, fetched>>

\* A tool called with arguments its schema rejects: schema.parse throws.
CallWithRejectedArguments ==
    /\ pc = "idle"
    /\ \E n \in ParsingTools :
         /\ tool' = n
         /\ Return(caughtResponse(rejection(n)))
    /\ UNCHANGED <<serverVars, urls, pools, args, query, limit, validation, sent, gotPool,
                   countResult, fetched>>

\* A name the switch has no case for: the default branch throws.
CallUnknownTool ==
    /\ pc = "idle"
    /\ \E n \in UnknownNames :
         /\ tool' = "unknown"
         /\ args' = [NoArgs EXCEPT !.name = n]
         /\ Return(caughtResponse(TXT_UNKNOWN_TOOL \o n))
    /\ UNCHANGED <<serverVars, urls, pools, query, limit, validation, sent, gotPool, countResult,
                   fetched>>

\* The first client.query of getDatabaseStatistics settles.
CountRespond ==
    /\ pc = "counting"
    /\ \E outcome \in CountOutcomes("total") : Platforms(executeQueryFinish(outcome))

\* client.query settles; executeQuery and the handler run to their return.
DbRespond ==
    /\ pc = "querying"
    /\ \E outcome \in IF tool \in {"initialize_dashboard", "show_vdata_app"}
                      THEN CountOutcomes("table_count") ELSE DbOutcomes :
         /\ Conclude(tool, args, countResult, executeQueryFinish(outcome))
         /\ fetched' = outcome.rows
    /\ UNCHANGED <<serverVars, urls, pools, tool, args, query, limit, validation, sent, gotPool,
                   countResult>>

\* The response has gone to the client and the handler's frame is dropped:
\* only the pool map outlives the call.
Deliver ==
    /\ pc = "done"
    /\ pc' = "idle"
    /\ tool' = "none"
    /\ args' = NoArgs
    /\ query' = <<>>
    /\ limit' = None
    /\ validation' = NoValidation
    /\ sent' = None
    /\ gotPool' = FALSE
    /\ dbResult' = NoOutcome
    /\ label' = None
    /\ displayLimit' = None
    /\ formatted' = NotFormatted
    /\ response' = NoResponse
    /\ countResult' = EmptyObject
    /\ fetched' = <<>>
    /\ UNCHANGED <<serverVars, urls, pools>>

Next ==
    \/ CallRunQuery
    \/ CallGetSampleData
    \/ CallGetColumnValueCounts
    \/ CallGetDatabaseStatistics
    \/ CallGetSchema
    \/ CallInitializeDashboard
    \/ CallWithRejectedArguments
    \/ CallUnknownTool
    \/ CountRespond
    \/ DbRespond
    \/ Deliver

Spec == Init /\ [][Next]_vars

\* ------------------------------------------------------------------------
\* formatDatabaseResult on its own: any raw outcome, label and display limit
\* ------------------------------------------------------------------------
\* 'done'
TXT_DONE ==
    <<"d","o","n","e">>

\* ' done '
TXT_DONE_PADDED ==
    <<" ","d","o","n","e"," ">>

\* '3 rows affected'
TXT_PROSE ==
    <<"3"," ","r","o","w","s"," ","a","f","f","e","c","t","e","d">>

\* 'Error:timeout'
TXT_ERROR_NO_SPACE ==
    <<"E","r","r","o","r",":","t","i","m","e","o","u","t">>

\* 'null'
TXT_JSON_NULL ==
    <<"n","u","l","l">>

\* 'SELECT 1'
LABEL_Q ==
    <<"S","E","L","E","C","T"," ","1">>

\* The most rows in a raw outcome handed to the normalizer.
MaxRawRows == 3

RowArrays == {[i \in 1..n |-> DbRow(i)] : n \in 0..MaxRawRows}

\* Two rows whose keys differ: [{ id: 1, v: 1 }, { id: 2 }]
UnevenRows == <<DbRow(1), RowObj(<<"id">>, <<2>>)>>

\* ['id', 'v']
ColumnStrings == Arr(<<StrElem("id"), StrElem("v")>>)

\* ['id']: fewer names than the rows have keys
OneColumn == Arr(<<StrElem("id")>>)

NullOutcome == [type |-> "null", text |-> <<>>, json |-> "none", obj |-> EmptyObject]

UndefinedOutcome ==
    [type |-> "undefined", text |-> <<>>, json |-> "none", obj |-> EmptyObject]

\* The text 'null': JSON.parse gives null, whose fields cannot be read.
JsonNullOutcome ==
    [type |-> "string", text |-> TXT_JSON_NULL, json |-> "null", obj |-> EmptyObject]

\* { success: true, rows?, columns?, row_count?, message? }
SuccessOutcomes ==
    {ObjectOutcome([EmptyObject EXCEPT
                      !["success"] = Bool(TRUE), !["rows"] = r, !["columns"] = c,
                      !["row_count"] = k, !["message"] = m]) :
        r \in {Undefined, Arr(<<NullElem>>), Arr(UnevenRows)}
              \cup {Arr(a) : a \in RowArrays},
        c \in {Undefined, Arr(<<>>), ColumnStrings, OneColumn},
        k \in {Undefined, Num(0), Num(2), Num(9)},
        m \in {Undefined, Str(TXT_DONE), Str(TXT_DONE_PADDED)}}

\* { success: false, error?, rows? }
FailureOutcomes ==
    {ObjectOutcome([EmptyObject EXCEPT
                      !["success"] = Bool(FALSE), !["error"] = e, !["rows"] = r]) :
        e \in {Undefined, Str(ERR_RELATION), Str(<<>>)},
        r \in {Undefined, Arr(<<DbRow(1), DbRow(2)>>)}}

\* Objects without a success field, null and undefined.
OtherOutcomes ==
    {ObjectOutcome(EmptyObject),
     ObjectOutcome([EmptyObject EXCEPT !["rows"] = Arr(<<DbRow(1)>>)]),
     NullOutcome, UndefinedOutcome}

\* Strings JSON.parse rejects, and the text 'null'.
TextOutcomes ==
    {StringOutcome(t) :
        t \in {<<>>, TXT_PROSE, TXT_ERROR_PREFIX_SP \o ERR_RELATION,
               TXT_ERROR_PREFIX_SP, TXT_ERROR_NO_SPACE}}
    \cup {JsonNullOutcome}

\* Strings holding a JSON object: the fields JSON.parse gives back.
DocumentOutcomes ==
    {jsonStringify([EmptyObject EXCEPT
                      !["data"] = d, !["distribution"] = g, !["columns"] = c,
                      !["row_count"] = k, !["total_rows"] = t, !["message"] = m]) :
        d \in {Undefined, Arr(<<>>), Arr(<<NullElem>>)}
              \cup {Arr(a) : a \in RowArrays \ {<<>>}},
        g \in {Undefined, Arr(<<DbRow(7)>>)},
        c \in {Undefined, ColumnStrings, Arr(<<DbRow(8)>>)},
        k \in {Undefined, Num(9)},
        t \in {Undefined, Num(4)},
        m \in {Undefined, Str(TXT_DONE), Str(TXT_DONE_PADDED)}}

\* The fields a document's rows are looked for in, in the order of the lookup.
RowFieldOrder == <<"data", "rows", "results", "platforms", "distribution", "columns">>

\* Documents with one or two of those fields: the earlier one empty, with a
\* row, or an array of strings; the later one (if any) empty or with a row.
\* Field number i holds DbRow(i).
FieldOrderDocuments ==
    LET earlier(i) == {Arr(<<>>), Arr(<<DbRow(i)>>), Arr(<<StrElem("x")>>)}
        later(j) == {Arr(<<>>), Arr(<<DbRow(j)>>)}
        n == Len(RowFieldOrder)
    IN  UNION {{jsonStringify([EmptyObject EXCEPT ![RowFieldOrder[i]] = e]) :
                  e \in earlier(i)} : i \in 1..n}
        \cup
        UNION {{jsonStringify([EmptyObject EXCEPT ![RowFieldOrder[p[1]]] = e,
                                                 ![RowFieldOrder[p[2]]] = l]) :
                  e \in earlier(p[1]), l \in later(p[2])} :
               p \in {q \in (1..n) \X (1..n) : q[1] < q[2]}}

\* '9'
TXT_NINE ==
    <<"9">>

\* Documents with two rows and any of the four count fields: a number, or
\* the digits of one as a string (what the driver gives for an int8).
CountDocuments ==
    {jsonStringify([EmptyObject EXCEPT
                      !["data"] = Arr(<<DbRow(1), DbRow(2)>>),
                      !["row_count"] = k, !["sample_size"] = z,
                      !["unique_values"] = u, !["total_rows"] = t]) :
        k \in {Undefined, Num(0), Num(5), Str(TXT_NINE)},
        z \in {Undefined, Num(6), Str(TXT_NINE)},
        u \in {Undefined, Num(7), Str(TXT_NINE)},
        t \in {Undefined, Num(8), Str(TXT_NINE)}}

RawOutcomes ==
    SuccessOutcomes \cup FailureOutcomes \cup OtherOutcomes
    \cup TextOutcomes \cup DocumentOutcomes \cup FieldOrderDocuments
    \cup CountDocuments

\* The query argument: absent, or a text.
Labels == {None, Some(LABEL_Q)}

\* options.displayLimit: absent, or a number.
DisplayLimits == {None, Some(-1), Some(0), Some(1), Some(2), Some(5)}

\* A caller is about to pass a raw outcome to formatDatabaseResult.
InitNorm ==
    /\ urls = {}
    /\ pools = {}
    /\ pc = "format"
    /\ tool = "none"
    /\ args = NoArgs
    /\ query = <<>>
    /\ limit = None
    /\ validation = NoValidation
    /\ sent = None
    /\ gotPool = FALSE
    /\ dbResult \in RawOutcomes
    /\ label \in Labels
    /\ displayLimit \in DisplayLimits
    /\ formatted = NotFormatted
    /\ response = NoResponse
    /\ countResult = EmptyObject
    /\ fetched = <<>>
    /\ NoServer

\* The call of formatDatabaseResult(dbResult, label, { displayLimit }).
Normalize ==
    /\ pc = "format"
    /\ formatted' = formatDatabaseResult(dbResult, label, displayLimit)
    /\ pc' = "formatted"
    /\ UNCHANGED <<serverVars, urls, pools, tool, args, query, limit, validation, sent, gotPool,
                   dbResult, label, displayLimit, response, countResult, fetched>>

NextNorm == Normalize

SpecNorm == InitNorm /\ [][NextNorm]_vars

\* ------------------------------------------------------------------------
\* Properties of the query guard (validateQuery, executeQuery)
\* ------------------------------------------------------------------------
\* The seven denylisted keywords, as the specification lists them.
DenyWords ==
    {KW_DROP, KW_DELETE, KW_UPDATE, KW_INSERT, KW_ALTER, KW_CREATE, KW_TRUNCATE}

\* The text the guard's policy speaks about: trimmed and upper-cased.
tested(q) == toUpperCase(trim(q))

hasDenyWord(u) == \E w \in DenyWords : includes(u, w)

\* 'empty or invalid query'
REASON_EMPTY ==
    <<"e","m","p","t","y"," ","o","r"," ","i","n","v","a","l","i","d"," ","q","u","e","r",
      "y">>

\* 'only SELECT statements allowed'
REASON_ONLY_SELECT ==
    <<"o","n","l","y"," ","S","E","L","E","C","T"," ","s","t","a","t","e","m","e","n","t",
      "s"," ","a","l","l","o","w","e","d">>

\* The verdict is invalid with the reason the specification words as text
\* (the code capitalises the first letter: letter case is not compared).
rejectedAs(v, text) ==
    /\ ~v.valid
    /\ v.error # None
    /\ toUpperCase(v.error[1]) = toUpperCase(text)

\* A call has entered executeQuery (validateQuery has given its verdict).
InCall == pc # "idle" /\ validation # NoValidation

\* C1: a query text that validateQuery rejects is never sent: on an invalid
\* verdict the call obtains no pool and issues no query, executeQuery returns
\* {success: false, error: reason} (which the handler hands on in the form the
\* tool uses), the handler has returned, and the tool result has status error
\* carrying that reason; every text that is sent passes validateQuery, both as
\* the caller wrote it and as it was dispatched.
C1_RejectedQueryNeverSent ==
    /\ (InCall /\ ~validateQuery(query).valid) =>
          /\ validation = validateQuery(query)
          /\ sent = None
          /\ ~gotPool
          /\ pc = "done"
          /\ dbResult = formatCall(tool, args, failure(Str(validation.error[1]))).dbResult
          /\ response.kind = "result"
          /\ response.structured.status = "error"
          /\ response.structured.error = validateQuery(query).error
    /\ sent # None =>
          /\ validateQuery(query).valid
          /\ validateQuery(sent[1]).valid

\* A rejected run_query, made while the pool of an earlier call exists.
C1_Witness ==
    /\ pc = "done"
    /\ tool = "run_query"
    /\ pools = {"main"}
    /\ query = F_SELECT \o F_FROM_T \o F_DROP_TABLE
    /\ validation = [valid |-> FALSE, error |-> Some(MSG_DANGEROUS \o KW_DROP)]
    /\ sent = None
    /\ response.structured.status = "error"
    /\ response.structured.error = Some(MSG_DANGEROUS \o KW_DROP)

\* C2 (as amended): every input whose trimmed upper-cased text contains a
\* denylisted keyword is invalid; when that text begins with SELECT the reason
\* is 'Dangerous keyword: ' followed by a denylisted keyword the text contains,
\* and otherwise the reason is the SELECT-only one.
C2_DenylistedTextRejected ==
    (InCall /\ hasDenyWord(tested(query))) =>
        /\ ~validation.valid
        /\ IF startsWith(tested(query), KW_SELECT)
           THEN \E w \in DenyWords :
                    /\ includes(tested(query), w)
                    /\ validation.error = Some(MSG_DANGEROUS \o w)
           ELSE rejectedAs(validation, REASON_ONLY_SELECT)

\* The specification's example: SELECT * FROM t; DROP TABLE t.
C2_Witness ==
    /\ InCall
    /\ tool = "run_query"
    /\ query = F_SELECT \o F_FROM_T \o F_DROP_TABLE
    /\ ~validation.valid
    /\ includes(validation.error[1], KW_DROP)

\* C2 as stated: every input whose trimmed upper-cased text contains a
\* denylisted keyword is invalid with a reason naming a keyword it contains.
C2_Original ==
    (InCall /\ hasDenyWord(tested(query))) =>
        /\ ~validation.valid
        /\ validation.error # None
        /\ \E w \in DenyWords :
              /\ includes(tested(query), w)
              /\ includes(toUpperCase(validation.error[1]), w)

\* C3: validateQuery returns a verdict for every string (valid with no reason,
\* or invalid with one); an empty or whitespace-only input is invalid with the
\* reason 'empty or invalid query'; any other input whose trimmed upper-cased
\* text does not begin with SELECT is invalid with the reason 'only SELECT
\* statements allowed'.
C3_VerdictForEveryString ==
    InCall =>
        /\ validation = validateQuery(query)
        /\ validation.valid \in BOOLEAN
        /\ validation.valid <=> validation.error = None
        /\ trim(query) = <<>> => rejectedAs(validation, REASON_EMPTY)
        /\ (trim(query) # <<>> /\ ~startsWith(tested(query), KW_SELECT)) =>
              rejectedAs(validation, REASON_ONLY_SELECT)

\* A whitespace-only query.
C3_Witness ==
    /\ pc = "done"
    /\ tool = "run_query"
    /\ query = F_SPACE
    /\ validation = [valid |-> FALSE, error |-> Some(MSG_EMPTY)]

\* C4: every input whose trimmed upper-cased text begins with SELECT and
\* contains none of the seven denylisted keywords is valid, with no reason.
C4_CleanSelectIsValid ==
    (InCall /\ startsWith(tested(query), KW_SELECT) /\ ~hasDenyWord(tested(query))) =>
        validation = [valid |-> TRUE, error |-> None]

\* A lower-case select with leading white space.
C4_Witness ==
    /\ InCall
    /\ tool = "run_query"
    /\ query = F_SPACE \o F_select_a
    /\ validation = [valid |-> TRUE, error |-> None]

\* C5 (as amended): an input is rejected with the reason 'only SELECT
\* statements allowed' exactly when it is not blank and its trimmed upper-cased
\* text does not begin with the letters SELECT; a text whose first token merely
\* starts with those letters (SELECTED) passes the SELECT test, and is valid
\* when it contains no denylisted keyword.
C5_SelectTestIsPrefixTest ==
    InCall =>
        /\ rejectedAs(validation, REASON_ONLY_SELECT)
              <=> (trim(query) # <<>> /\ ~startsWith(tested(query), KW_SELECT))
        /\ (startsWith(tested(query), KW_SELECT)
            /\ firstToken(tested(query)) # KW_SELECT
            /\ ~hasDenyWord(tested(query))) => validation.valid

\* The query SELECTED, accepted and dispatched.
C5_Witness ==
    /\ pc = "querying"
    /\ tool = "run_query"
    /\ query = F_SELECT \o F_ED
    /\ validation.valid
    /\ sent # None

\* C5 as stated: every input whose first token is not SELECT is invalid with
\* the reason 'only SELECT statements allowed'.
C5_Original ==
    (InCall /\ trim(query) # <<>> /\ firstToken(tested(query)) # KW_SELECT) =>
        rejectedAs(validation, REASON_ONLY_SELECT)

\* A SELECT text that names created_at and holds no denylisted keyword but the
\* CREATE inside CREATED_AT.
namesCreatedAtOnly(u) ==
    /\ startsWith(u, KW_SELECT)
    /\ includes(u, toUpperCase(COL_CREATED_AT))
    /\ \A w \in DenyWords \ {KW_CREATE} : ~includes(u, w)

\* C6 (as amended): a SELECT query that references a column named created_at
\* and contains no other denylisted text does trigger the denylist:
\* validateQuery returns invalid with the reason 'Dangerous keyword: CREATE'.
C6_CreatedAtIsRejected ==
    (InCall /\ namesCreatedAtOnly(tested(query))) =>
        /\ validation = [valid |-> FALSE, error |-> Some(MSG_DANGEROUS \o KW_CREATE)]
        /\ sent = None

\* select a, created_at FROM t
C6_Witness ==
    /\ pc = "done"
    /\ tool = "run_query"
    /\ query = F_select_a \o F_CREATED_AT
    /\ validation.error = Some(MSG_DANGEROUS \o KW_CREATE)
    /\ response.structured.status = "error"

\* C6 as stated: a SELECT query that references created_at and contains no
\* other denylisted text is valid.
C6_Original ==
    (InCall /\ namesCreatedAtOnly(tested(query))) => validation.valid

\* The cap the specification injects: min(requested limit, 1000), and 1000
\* when no limit is requested.
claimedCap(lim) == IF lim = None THEN 1000 ELSE mathMin(lim[1], 1000)

\* C7 as stated: for a valid query whose text contains no LIMIT (in any letter
\* case) the dispatched text ends with ' LIMIT <cap>', cap being min(requested
\* limit, 1000), or 1000 when no limit is requested, and never above 1000.
C7_Original ==
    (sent # None /\ validation.valid /\ ~includes(toUpperCase(query), KW_LIMIT)) =>
        /\ claimedCap(limit) <= 1000
        /\ endsWith(sent[1], TXT_LIMIT \o numberToString(claimedCap(limit)))

\* C8 (as amended): for a valid query whose text already contains LIMIT (in any
\* letter case) the dispatched text is the query with leading and trailing
\* white space removed and otherwise unchanged, whatever limit was requested:
\* no second LIMIT is appended, the existing one is not rewritten and a
\* trailing semicolon stays.
C8_ExistingLimitKept ==
    (sent # None /\ validation.valid /\ includes(toUpperCase(query), KW_LIMIT)) =>
        sent[1] = trim(query)

\* The specification's example: SELECT * FROM t LIMIT 10 with limit 5000.
C8_Witness ==
    /\ pc = "querying"
    /\ tool = "run_query"
    /\ query = F_SELECT \o F_FROM_T \o F_LIMIT_10
    /\ limit = Some(5000)
    /\ sent = Some(query)

\* C8 as stated: for a valid query whose text already contains LIMIT the
\* dispatched text is the query text unchanged.
C8_Original ==
    (sent # None /\ validation.valid /\ includes(toUpperCase(query), KW_LIMIT)) =>
        sent[1] = query

\* ------------------------------------------------------------------------
\* Properties of the result normalizer (formatDatabaseResult)
\* ------------------------------------------------------------------------
\* formatDatabaseResult has returned a QueryResult.
Produced == pc = "formatted" /\ formatted.kind = "returned"

\* The fields a JSON document may hold its rows in, in the order of the
\* specification.
RowFields == <<"data", "rows", "results", "platforms", "distribution", "columns">>

\* The row array a raw outcome supplies: the rows of a structured success, or
\* the first listed field of a JSON document that is an empty array or an
\* array of objects; no rows otherwise.
rowsSupplied(raw) ==
    IF raw.type = "object"
    THEN IF truthy(raw.obj.success) /\ isArray(raw.obj.rows)
         THEN raw.obj.rows.a ELSE <<>>
    ELSE IF raw.type = "string" /\ raw.json = "document"
    THEN LET holds(i) == LET v == raw.obj[RowFields[i]]
                         IN  /\ isArray(v)
                             /\ Len(v.a) = 0 \/ v.a[1].t \in {"object", "null"}
             found == {i \in 1..Len(RowFields) : holds(i)}
         IN  IF found = {} THEN <<>>
             ELSE raw.obj[RowFields[CHOOSE i \in found : \A j \in found : i <= j]].a
    ELSE <<>>

\* Every row supplied is a row object.
rowObjectsOnly(rows) == \A i \in 1..Len(rows) : rows[i].t = "object"

\* C9 as stated: every QueryResult the normalizer produces has either status
\* error with the error field present, or status success with the error field
\* absent.
C9_Original ==
    Produced =>
        \/ formatted.value.status = "error" /\ formatted.value.error # None
        \/ formatted.value.status = "success" /\ formatted.value.error = None

\* C10 (as amended): in every QueryResult the normalizer produces from row
\* objects, truncated is true if and only if results has fewer rows than the
\* row array the raw outcome supplied, whatever row count the outcome reports;
\* with no display limit truncated is false.
C10_TruncatedIffRowsCut ==
    Produced =>
        /\ rowObjectsOnly(rowsSupplied(dbResult)) =>
              (formatted.value.truncated
                 <=> Len(formatted.value.results) < Len(rowsSupplied(dbResult)))
        /\ displayLimit = None => ~formatted.value.truncated

\* Three rows cut to two, with a reported row count of 2: truncated although
\* results.length = rowCount.
C10_Witness ==
    /\ Produced
    /\ dbResult.type = "object"
    /\ Len(rowsSupplied(dbResult)) = 3
    /\ displayLimit = Some(2)
    /\ formatted.value.rowCount = 2
    /\ Len(formatted.value.results) = 2
    /\ formatted.value.truncated

\* C10 as stated: truncated is true if and only if results.length < rowCount.
C10_Original ==
    Produced =>
        (formatted.value.truncated
           <=> Len(formatted.value.results) < formatted.value.rowCount)

\* C11 (as amended): in every QueryResult the normalizer produces, truncated =
\* true implies that a numeric display limit was given, that the displayLimit
\* field is that limit and that it is smaller than the length of the supplied
\* row array; it is smaller than rowCount as well whenever the reported total
\* is not below the number of rows supplied.
C11_TruncatedImpliesLimitBelowRows ==
    (Produced /\ formatted.value.truncated) =>
        /\ displayLimit # None
        /\ formatted.value.displayLimit = displayLimit[1]
        /\ formatted.value.displayLimit < Len(rowsSupplied(dbResult))
        /\ formatted.value.rowCount >= Len(rowsSupplied(dbResult)) =>
              formatted.value.displayLimit < formatted.value.rowCount

\* Three rows reported as 9, cut to two.
C11_Witness ==
    /\ Produced
    /\ formatted.value.truncated
    /\ Len(rowsSupplied(dbResult)) = 3
    /\ formatted.value.rowCount = 9
    /\ formatted.value.displayLimit = 2
    /\ Len(formatted.value.results) = 2

\* C11 as stated: truncated = true implies displayLimit < rowCount, rowCount
\* being the total the collaborator reports.
C11_Original ==
    (Produced /\ formatted.value.truncated) =>
        formatted.value.displayLimit < formatted.value.rowCount

\* A raw outcome of no recognized shape: neither a string nor an object with a
\* success field.
Unrecognized(raw) ==
    \/ raw.type \in {"null", "undefined"}
    \/ raw.type = "object" /\ raw.obj.success = Undefined

\* C12 as stated: for every raw outcome the normalizer returns, without
\* throwing, a QueryResult whose status is success or error; an unrecognized
\* shape yields a message-only success result (no rows, no columns, no error),
\* not a failure and not the raw input passed through.
C12_Original ==
    pc = "formatted" =>
        /\ formatted.kind = "returned"
        /\ formatted.value.status \in {"success", "error"}
        /\ Unrecognized(dbResult) =>
              /\ formatted.value.status = "success"
              /\ formatted.value.results = <<>>
              /\ formatted.value.columns = <<>>
              /\ formatted.value.error = None

\* A structured success outcome whose rows, when supplied, are row objects.
StructuredSuccess(raw) ==
    /\ raw.type = "object"
    /\ raw.obj.success = Bool(TRUE)
    /\ raw.obj.rows.t \in {"undefined", "array"}
    /\ rowObjectsOnly(raw.obj.rows.a)

\* The column names a structured outcome supplies (none when it has no list).
columnsSupplied(raw) ==
    IF raw.obj.columns.t = "array"
    THEN [i \in 1..Len(raw.obj.columns.a) |-> raw.obj.columns.a[i].s]
    ELSE <<>>

\* The row count the result of a structured success must carry: row_count
\* when it is a number, the number of rows otherwise.
rowCountOf(raw) ==
    IF raw.obj.row_count.t = "number" THEN raw.obj.row_count.n
    ELSE Len(raw.obj.rows.a)

\* C13: given a structured success outcome of row objects and no display cap,
\* the normalizer returns status success, results equal to all the rows in
\* order, columns equal to the supplied columns (an empty or missing list
\* supplies none: the columns are then the keys of the first row, if any),
\* rowCount equal to row_count (the number of rows when row_count is missing),
\* truncated = false and a displayLimit field equal to that row count.
C13_StructuredSuccessWithoutCap ==
    (pc = "formatted" /\ StructuredSuccess(dbResult) /\ displayLimit = None) =>
        /\ formatted.kind = "returned"
        /\ formatted.value.status = "success"
        /\ formatted.value.error = None
        /\ formatted.value.results = dbResult.obj.rows.a
        /\ formatted.value.columns =
              IF columnsSupplied(dbResult) # <<>> THEN columnsSupplied(dbResult)
              ELSE IF dbResult.obj.rows.a # <<>> THEN dbResult.obj.rows.a[1].keys
              ELSE <<>>
        /\ formatted.value.rowCount = rowCountOf(dbResult)
        /\ ~formatted.value.truncated
        /\ formatted.value.displayLimit = formatted.value.rowCount

\* The specification's example: two rows, their columns, row_count 2.
C13_Witness ==
    /\ pc = "formatted"
    /\ StructuredSuccess(dbResult)
    /\ displayLimit = None
    /\ dbResult.obj.rows = Arr(<<DbRow(1), DbRow(2)>>)
    /\ dbResult.obj.columns = ColumnStrings
    /\ dbResult.obj.row_count = Num(2)
    /\ formatted.value.results = <<DbRow(1), DbRow(2)>>
    /\ formatted.value.columns = <<"id", "v">>
    /\ formatted.value.displayLimit = 2

\* The first d entries of rows (all of them when there are fewer), d >= 0.
firstRows(rows, d) == [i \in 1..(IF d < Len(rows) THEN d ELSE Len(rows)) |-> rows[i]]

\* C14: when displayLimit is a number, truncated equals (length of the raw row
\* array > length of results), and for a non-negative displayLimit results are
\* the first displayLimit entries of the raw rows, for structured and for JSON
\* string outcomes of row objects.
C14_ResultsAreFirstRows ==
    (Produced /\ displayLimit # None /\ rowObjectsOnly(rowsSupplied(dbResult))) =>
        /\ formatted.value.truncated
              = (Len(rowsSupplied(dbResult)) > Len(formatted.value.results))
        /\ displayLimit[1] >= 0 =>
              formatted.value.results = firstRows(rowsSupplied(dbResult), displayLimit[1])

\* The specification's example: two rows with displayLimit = 1.
C14_Witness ==
    /\ Produced
    /\ dbResult.type = "object"
    /\ dbResult.obj.rows = Arr(<<DbRow(1), DbRow(2)>>)
    /\ displayLimit = Some(1)
    /\ formatted.value.results = <<DbRow(1)>>
    /\ formatted.value.truncated

\* The message an outcome with rows has before any truncation note: its own
\* message when it has one, the stock message of its kind otherwise.
priorMessage(raw) ==
    IF raw.obj.message.t = "string" /\ raw.obj.message.s # <<>>
    THEN raw.obj.message.s
    ELSE IF raw.type = "string"
    THEN TXT_COMPLETED
    ELSE TXT_EXECUTED
         \o natToString(IF raw.obj.row_count.t = "number" /\ raw.obj.row_count.n # 0
                        THEN raw.obj.row_count.n ELSE Len(raw.obj.rows.a))
         \o TXT_ROWS_RETURNED

\* 'Showing first <displayLimit> of <rowCount> rows.' for the result r.
truncationNote(r) ==
    TXT_SHOWING_FIRST \o numberToString(r.displayLimit) \o TXT_OF
    \o numberToString(r.rowCount) \o TXT_ROWS_DOT

\* C15 (as amended): when the result is truncated and status = success, the
\* message is the prior message with its leading and trailing white space
\* removed, followed by a space and 'Showing first <displayLimit> of <rowCount>
\* rows.'; the note is appended to the prior message and never replaces it;
\* when the result is not truncated or status = error the message carries no
\* note (an outcome with row objects keeps its prior message unchanged), and
\* a result with status = error is never truncated.
C15_NoteAppendedWhenTruncated ==
    Produced =>
        /\ formatted.value.message # None
        /\ IF formatted.value.truncated /\ formatted.value.status = "success"
           THEN formatted.value.message
                   = Some(trim(priorMessage(dbResult)) \o <<" ">>
                          \o truncationNote(formatted.value))
           ELSE /\ ~includes(formatted.value.message[1], TXT_SHOWING_FIRST)
                /\ (rowsSupplied(dbResult) # <<>> /\ rowObjectsOnly(rowsSupplied(dbResult)))
                      => formatted.value.message = Some(priorMessage(dbResult))
        /\ formatted.value.status = "error" => ~formatted.value.truncated

\* A message with surrounding white space, two rows cut to one.
C15_Witness ==
    /\ Produced
    /\ dbResult.type = "object"
    /\ dbResult.obj.message = Str(TXT_DONE_PADDED)
    /\ dbResult.obj.rows = Arr(<<DbRow(1), DbRow(2)>>)
    /\ dbResult.obj.row_count = Num(2)
    /\ displayLimit = Some(1)
    /\ formatted.value.truncated
    /\ formatted.value.message = Some(TXT_DONE \o <<" ">> \o truncationNote(formatted.value))

\* C15 as stated: when the result is truncated and status = success, the
\* message is the prior message followed by a space and the note.
C15_Original ==
    (Produced /\ formatted.value.truncated /\ formatted.value.status = "success") =>
        formatted.value.message
           = Some(priorMessage(dbResult) \o <<" ">> \o truncationNote(formatted.value))

\* A structured failure outcome { success: false, error: E }, E a string.
StructuredFailure(raw) ==
    /\ raw.type = "object"
    /\ raw.obj.success = Bool(FALSE)
    /\ raw.obj.error.t = "string"

\* C16: given a structured failure outcome { success: false, error: E }, the
\* normalizer returns status error, error = E, no results, no columns,
\* rowCount 0, truncated = false and the message 'Query failed: ' followed by
\* E, whatever rows the outcome carries and whatever the display limit is.
C16_StructuredFailure ==
    (pc = "formatted" /\ StructuredFailure(dbResult)) =>
        /\ formatted.kind = "returned"
        /\ formatted.value.status = "error"
        /\ formatted.value.error = Some(dbResult.obj.error.s)
        /\ formatted.value.results = <<>>
        /\ formatted.value.columns = <<>>
        /\ formatted.value.rowCount = 0
        /\ ~formatted.value.truncated
        /\ formatted.value.message = Some(TXT_QUERY_FAILED \o dbResult.obj.error.s)

\* A failure that carries two rows, normalized under display limit 1.
C16_Witness ==
    /\ pc = "formatted"
    /\ StructuredFailure(dbResult)
    /\ dbResult.obj.error = Str(ERR_RELATION)
    /\ dbResult.obj.rows = Arr(<<DbRow(1), DbRow(2)>>)
    /\ displayLimit = Some(1)
    /\ formatted.value.status = "error"
    /\ formatted.value.results = <<>>
    /\ formatted.value.message = Some(TXT_QUERY_FAILED \o ERR_RELATION)

\* A string outcome JSON.parse rejects.
NotJson(raw) == raw.type = "string" /\ raw.json = "invalid"

\* cs without its first n characters.
dropFirst(cs, n) == SubSeq(cs, n + 1, Len(cs))

\* C17 as stated: a string outcome that is not valid JSON and starts with
\* 'Error: ' is mapped to status error with error = the string without that
\* prefix, message = the string, no results, no columns and rowCount 0; a
\* string that does not start with 'Error: ' (the space included) is not
\* treated as an error.
C17_Original ==
    (pc = "formatted" /\ NotJson(dbResult)) =>
        /\ formatted.kind = "returned"
        /\ IF startsWith(dbResult.text, TXT_ERROR_PREFIX_SP)
           THEN /\ formatted.value.status = "error"
                /\ formatted.value.error
                      = Some(dropFirst(dbResult.text, Len(TXT_ERROR_PREFIX_SP)))
                /\ formatted.value.message = Some(dbResult.text)
                /\ formatted.value.results = <<>>
                /\ formatted.value.columns = <<>>
                /\ formatted.value.rowCount = 0
           ELSE formatted.value.status # "error"

\* ------------------------------------------------------------------------
\* Properties of the CallTool handler
\* ------------------------------------------------------------------------
\* The handler returned the result of a helper (its catch block was not
\* entered).
Answered == pc = "done" /\ response.kind = "result"

\* The tools that pass no display cap.
UncappedTools == {"get_sample_data", "get_database_statistics", "get_column_value_counts"}

\* C18: whenever run_query returns a result, it was normalized with display
\* cap 5: the result has displayLimit = 5 and the first rows fetched, at most
\* 5 of them, whatever limit was requested and however many rows the database
\* returned; get_sample_data, get_database_statistics and
\* get_column_value_counts pass no display cap: their results have
\* truncated = false and, unless the helper reported a failure (an error result
\* has no rows), hold every row fetched.
C18_OnlyRunQueryIsCapped ==
    Answered =>
        /\ tool = "run_query" =>
              /\ displayLimit = Some(5)
              /\ response.structured.displayLimit = 5
              /\ Len(response.structured.results) <= 5
              /\ response.structured.results
                    = SubSeq(fetched, 1, IF Len(fetched) < 5 THEN Len(fetched) ELSE 5)
              /\ response.structured.truncated <=> Len(fetched) > 5
        /\ tool \in UncappedTools =>
              /\ displayLimit = None
              /\ ~response.structured.truncated
              /\ IF response.structured.status = "success"
                 THEN response.structured.results = fetched
                 ELSE response.structured.results = <<>>

\* run_query asked for 5000 rows, the database returned six, five are shown.
C18_Witness ==
    /\ Answered
    /\ tool = "run_query"
    /\ args.limit = Some(5000)
    /\ Len(fetched) = 6
    /\ Len(response.structured.results) = 5
    /\ response.structured.displayLimit = 5
    /\ response.structured.truncated

\* get_database_statistics returned all six rows of its second query.
C18_WitnessUncapped ==
    /\ Answered
    /\ tool = "get_database_statistics"
    /\ Len(fetched) = 6
    /\ response.structured.results = fetched
    /\ ~response.structured.truncated

\* C19: every tool call that has returned (any tool name, any arguments, any
\* database outcome) has returned a renderable result, structuredContent with
\* status success or error; an exception raised inside the handler (unknown
\* tool name, arguments the schema rejects, get_schema with no database
\* configured, a collaborator throwing) never leaves it: it is returned as
\* structuredContent with status error, error = the exception's message,
\* results = [] and isError = true.
C19_EveryCallYieldsAResult ==
    pc = "done" =>
        /\ response.kind \in {"result", "caught"}
        /\ response.structured.status \in {"success", "error"}
        /\ response.kind = "caught" =>
              /\ response.structured.status = "error"
              /\ response.structured.error # None
              /\ response.structured.results = <<>>
              /\ response.structured.columns = <<>>
              /\ response.isError
              /\ response.text = <<"E","r","r","o","r",":"," ">> \o response.structured.error[1]
        /\ tool = "unknown" =>
              /\ response.kind = "caught"
              /\ response.structured.error = Some(TXT_UNKNOWN_TOOL \o args.name)
        /\ (tool = "get_schema" /\ "main" \notin urls) =>
              /\ response.kind = "caught"
              /\ response.isError
        /\ (response.kind = "result" /\ response.structured.status = "error") =>
              response.structured.error # None
        /\ response.isError <=> response.kind = "caught"

\* An unknown tool name answered from the catch block.
C19_Witness ==
    /\ pc = "done"
    /\ tool = "unknown"
    /\ args.name = F_EXPORT_ALL
    /\ response.structured.status = "error"
    /\ response.structured.error = Some(TXT_UNKNOWN_TOOL \o F_EXPORT_ALL)
    /\ response.structured.results = <<>>
    /\ response.isError

\* get_schema with no database configured, answered from the catch block.
C19_WitnessNotConfigured ==
    /\ pc = "done"
    /\ tool = "get_schema"
    /\ response.structured.error = Some(TXT_NOT_CONFIGURED)
    /\ response.isError

\* run_query with arguments the schema rejects, answered from the catch block.
C19_WitnessRejected ==
    /\ pc = "done"
    /\ tool = "run_query"
    /\ response.kind = "caught"
    /\ response.structured.error = Some(rejection("run_query"))
    /\ response.isError

\* ------------------------------------------------------------------------
\* Normalizing a normalized result again
\* ------------------------------------------------------------------------
\* A QueryResult wrapped back as a structured success outcome:
\* { success: true, rows: r.results, columns: r.columns, row_count: r.rowCount }
wrapped(r) ==
    ObjectOutcome([EmptyObject EXCEPT
                     !["success"]   = Bool(TRUE),
                     !["rows"]      = Arr(r.results),
                     !["columns"]   = Arr([i \in 1..Len(r.columns) |-> StrElem(r.columns[i])]),
                     !["row_count"] = Num(r.rowCount)])

\* A display cap: none, or a number of rows (not negative).
IsCap(d) == d = None \/ d[1] >= 0

\* C20: normalization is idempotent on structured success: for every
\* QueryResult r produced with status success, under no display cap or a cap
\* that is a number of rows (zero or more), normalizing { success: true,
\* rows: r.results, columns: r.columns, row_count: r.rowCount } with the same
\* cap returns a QueryResult with the same results, columns and rowCount as r.
C20_NormalizationIsIdempotent ==
    (Produced /\ formatted.value.status = "success" /\ IsCap(displayLimit)) =>
        LET again == formatDatabaseResult(wrapped(formatted.value), label, displayLimit)
        IN  /\ again.kind = "returned"
            /\ again.value.status = "success"
            /\ again.value.results = formatted.value.results
            /\ again.value.columns = formatted.value.columns
            /\ again.value.rowCount = formatted.value.rowCount

\* Three rows with a reported total of nine, cut to two, then normalized again.
C20_Witness ==
    /\ Produced
    /\ dbResult.type = "object"
    /\ dbResult.obj.rows = Arr(<<DbRow(1), DbRow(2), DbRow(3)>>)
    /\ dbResult.obj.row_count = Num(9)
    /\ displayLimit = Some(2)
    /\ formatted.value.results = <<DbRow(1), DbRow(2)>>
    /\ formatted.value.rowCount = 9
    /\ formatDatabaseResult(wrapped(formatted.value), label, displayLimit).value.results
          = <<DbRow(1), DbRow(2)>>
    /\ formatDatabaseResult(wrapped(formatted.value), label, displayLimit).value.rowCount = 9

\* ------------------------------------------------------------------------
\* Columns, row lookup and row count of the normalizer
\* ------------------------------------------------------------------------
\* The column metadata a successful raw outcome supplies explicitly: a
\* non-empty array of strings in its columns field (none otherwise).
suppliedColumns(raw) ==
    IF /\ raw.type = "object" => truthy(raw.obj.success)
       /\ raw.obj.columns.t = "array"
       /\ Len(raw.obj.columns.a) > 0
       /\ \A i \in 1..Len(raw.obj.columns.a) : raw.obj.columns.a[i].t = "string"
    THEN [i \in 1..Len(raw.obj.columns.a) |-> raw.obj.columns.a[i].s]
    ELSE <<>>

\* C21 (as amended): in every QueryResult the normalizer produces, column
\* metadata the collaborator supplied explicitly (a non-empty list of names)
\* is used as given; otherwise, when results is non-empty columns is the key
\* list of the first row of results, so that columns.length equals the key
\* count of every row that has the first row's keys; when results is empty
\* and no metadata was supplied columns = [], except that for a JSON-string
\* outcome with no list of names in its columns field, all of whose rows the
\* display limit cut away, columns is the key list of the first raw row.
C21_ColumnsMatchRows ==
    Produced =>
        LET r == formatted.value
            sup == suppliedColumns(dbResult)
            raw == rowsSupplied(dbResult)
        IN  /\ sup # <<>> => r.columns = sup
            /\ (sup = <<>> /\ r.results # <<>>) =>
                  /\ r.columns = r.results[1].keys
                  /\ \A i \in 1..Len(r.results) :
                        r.results[i].keys = r.results[1].keys
                           => Len(r.columns) = Len(r.results[i].keys)
            /\ (sup = <<>> /\ r.results = <<>>) =>
                  IF /\ dbResult.type = "string"
                     /\ raw # <<>>
                     /\ \/ dbResult.obj.columns.t # "array"
                        \/ \E i \in 1..Len(dbResult.obj.columns.a) :
                              dbResult.obj.columns.a[i].t # "string"
                  THEN r.columns = raw[1].keys
                  ELSE r.columns = <<>>

\* Rows with two keys each under a supplied list of one name.
C21_Witness ==
    /\ Produced
    /\ dbResult.type = "object"
    /\ dbResult.obj.columns = OneColumn
    /\ dbResult.obj.rows = Arr(<<DbRow(1), DbRow(2)>>)
    /\ displayLimit = None
    /\ formatted.value.results = <<DbRow(1), DbRow(2)>>
    /\ formatted.value.columns = <<"id">>

\* C21 as stated: when results is non-empty columns.length equals the key
\* count of each row in results, and when results is empty columns = []
\* unless the collaborator explicitly supplied column metadata.
C21_Original ==
    Produced =>
        /\ \A i \in 1..Len(formatted.value.results) :
              Len(formatted.value.columns) = Len(formatted.value.results[i].keys)
        /\ formatted.value.results = <<>> =>
              \/ formatted.value.columns = <<>>
              \/ suppliedColumns(dbResult) # <<>>

\* A JSON-string outcome holding a document.
JsonDocument(raw) == raw.type = "string" /\ raw.json = "document"

\* No array of the document has null for an element.
withoutNullRows(raw) ==
    \A i \in 1..Len(RowFields) :
        LET v == raw.obj[RowFields[i]]
        IN  v.t = "array" => \A k \in 1..Len(v.a) : v.a[k].t # "null"

\* The fields of the document that hold an empty array or an array of objects.
qualifying(raw) ==
    {i \in 1..Len(RowFields) :
        LET v == raw.obj[RowFields[i]]
        IN  v.t = "array" /\ (v.a = <<>> \/ v.a[1].t = "object")}

\* C22: for a JSON-string outcome (its arrays holding objects, strings or
\* nothing) the row array is that of the first field, in the order data, rows,
\* results, platforms, distribution, columns, that holds an array of objects or
\* an empty array, and [] when no field qualifies; the earlier field wins over
\* a later one with other rows, also when the earlier one is empty; the
\* results are those rows under the display limit, and status is success.
C22_FirstQualifyingFieldWins ==
    (Produced /\ JsonDocument(dbResult) /\ withoutNullRows(dbResult)) =>
        LET q == qualifying(dbResult)
            rows == IF q = {} THEN <<>>
                    ELSE dbResult.obj[RowFields[CHOOSE i \in q : \A j \in q : i <= j]].a
        IN  /\ formatted.value.status = "success"
            /\ formatted.value.error = None
            /\ displayLimit = None => formatted.value.results = rows
            /\ (displayLimit # None /\ displayLimit[1] >= 0) =>
                  formatted.value.results = firstRows(rows, displayLimit[1])
            /\ \A i \in 1..Len(formatted.value.results) :
                  formatted.value.results[i] = rows[i]

\* data is an empty array and distribution has a row: no rows are shown.
C22_Witness ==
    /\ Produced
    /\ JsonDocument(dbResult)
    /\ dbResult.obj.data = Arr(<<>>)
    /\ dbResult.obj.distribution = Arr(<<DbRow(5)>>)
    /\ displayLimit = None
    /\ formatted.value.status = "success"
    /\ formatted.value.results = <<>>

\* rows holds strings and platforms has a row: the row of platforms is shown.
C22_WitnessLater ==
    /\ Produced
    /\ JsonDocument(dbResult)
    /\ dbResult.obj.rows = Arr(<<StrElem("x")>>)
    /\ dbResult.obj.platforms = Arr(<<DbRow(4)>>)
    /\ displayLimit = None
    /\ formatted.value.results = <<DbRow(4)>>

\* The count fields of a document, in the order of the lookup.
CountFields == <<"row_count", "sample_size", "unique_values", "total_rows">>

\* The count fields of the document that hold a number.
numeric(raw) == {i \in 1..Len(CountFields) : raw.obj[CountFields[i]].t = "number"}

\* The count fields the document has at all.
present(raw) == {i \in 1..Len(CountFields) : raw.obj[CountFields[i]].t # "undefined"}

\* C23 (as amended): for a JSON-string outcome rowCount is the value of the
\* first field among row_count, sample_size, unique_values, total_rows, in
\* that order, that holds a number (zero included), and the length of the row
\* array, before any display limit, when none of them does.
C23_RowCountFromFirstNumber ==
    (Produced /\ JsonDocument(dbResult) /\ withoutNullRows(dbResult)) =>
        LET n == numeric(dbResult)
        IN  formatted.value.rowCount
              = IF n = {} THEN Len(rowsSupplied(dbResult))
                ELSE dbResult.obj[CountFields[CHOOSE i \in n : \A j \in n : i <= j]].n

\* row_count is the string '9' and unique_values the number 7: rowCount is 7.
C23_Witness ==
    /\ Produced
    /\ JsonDocument(dbResult)
    /\ dbResult.obj.row_count = Str(TXT_NINE)
    /\ dbResult.obj.sample_size = Undefined
    /\ dbResult.obj.unique_values = Num(7)
    /\ dbResult.obj.total_rows = Num(8)
    /\ formatted.value.rowCount = 7

\* C23 as stated: for a JSON-string outcome rowCount is the value of the
\* first present field among row_count, sample_size, unique_values,
\* total_rows (the number a string of digits stands for, here 9), and the
\* row-array length when none of them is present.
C23_Original ==
    (Produced /\ JsonDocument(dbResult) /\ withoutNullRows(dbResult)) =>
        LET p == present(dbResult)
            first == dbResult.obj[CountFields[CHOOSE i \in p : \A j \in p : i <= j]]
        IN  formatted.value.rowCount
              = IF p = {} THEN Len(rowsSupplied(dbResult))
                ELSE IF first.t = "number" THEN first.n
                ELSE 9

\* ---------------------------------------------------------------------------
\* Column fallback

\* The document has a columns field that asStringArray accepts.
stringColumnsField(raw) ==
    /\ raw.obj.columns.t = "array"
    /\ \A i \in 1..Len(raw.obj.columns.a) : raw.obj.columns.a[i].t = "string"

\* The raw outcome carries rows and its first row is a row object.
hasFirstRow(raw) ==
    /\ StructuredSuccess(raw) \/ JsonDocument(raw)
    /\ rowsSupplied(raw) # <<>>
    /\ rowsSupplied(raw)[1].t = "object"

\* C24 (as amended): when the raw outcome has at least one row, an explicit
\* non-empty string-array columns field is used as given; without one the
\* normalizer's columns are the ordered key list of the first raw row, for a
\* JSON-string outcome with no string-array columns field under every display
\* limit, and for a structured outcome or a document with an empty columns
\* array under every display limit that leaves at least one row in results.
C24_ColumnFallback ==
    (Produced /\ hasFirstRow(dbResult)) =>
        LET sup == suppliedColumns(dbResult)
            keys == rowsSupplied(dbResult)[1].keys
        IN  /\ sup # <<>> => formatted.value.columns = sup
            /\ (sup = <<>> /\ JsonDocument(dbResult) /\ ~stringColumnsField(dbResult)) =>
                   formatted.value.columns = keys
            /\ (sup = <<>> /\ formatted.value.results # <<>>) =>
                   formatted.value.columns = keys

\* A structured outcome with two rows and no columns field, capped at one
\* row: the columns are the keys of the first row.
C24_Witness ==
    /\ Produced
    /\ StructuredSuccess(dbResult)
    /\ dbResult.obj.columns = Undefined
    /\ Len(rowsSupplied(dbResult)) = 2
    /\ rowsSupplied(dbResult)[1].t = "object"
    /\ displayLimit = Some(1)
    /\ formatted.value.columns = rowsSupplied(dbResult)[1].keys
    /\ formatted.value.columns # <<>>

\* A document with rows and no columns field under a display limit of 0:
\* the columns are still the keys of the first raw row.
C24_WitnessDocument ==
    /\ Produced
    /\ JsonDocument(dbResult)
    /\ dbResult.obj.columns = Undefined
    /\ hasFirstRow(dbResult)
    /\ displayLimit = Some(0)
    /\ formatted.value.results = <<>>
    /\ formatted.value.columns = rowsSupplied(dbResult)[1].keys
    /\ formatted.value.columns # <<>>

\* C24 as stated: whenever no non-empty column list is supplied but the raw
\* outcome has at least one row, the columns are the ordered key list of the
\* first row, for both kinds of outcome and for every display limit.
C24_Original ==
    (Produced /\ hasFirstRow(dbResult)) =>
        LET sup == suppliedColumns(dbResult)
        IN  /\ sup # <<>> => formatted.value.columns = sup
            /\ sup = <<>> => formatted.value.columns = rowsSupplied(dbResult)[1].keys

\* ---------------------------------------------------------------------------
\* Plain text outcomes

\* C25 as stated: a string outcome that fails JSON parsing and does not start
\* with the error prefix 'Error: ' is returned with status success, message =
\* the entire string, no results, no columns, rowCount 0, truncated false and
\* no error field.
C25_Original ==
    (pc = "formatted" /\ NotJson(dbResult)
       /\ ~startsWith(dbResult.text, TXT_ERROR_PREFIX_SP)) =>
        /\ formatted.kind = "returned"
        /\ formatted.value.status = "success"
        /\ formatted.value.message = Some(dbResult.text)
        /\ formatted.value.results = <<>>
        /\ formatted.value.columns = <<>>
        /\ formatted.value.rowCount = 0
        /\ formatted.value.truncated = FALSE
        /\ formatted.value.error = None

\* What the code does with such a string: the claim's result for every text
\* that does not start with 'Error:', whatever the display limit.
C25_PlainTextIsMessage ==
    (pc = "formatted" /\ NotJson(dbResult)
       /\ ~startsWith(dbResult.text, TXT_ERROR_PREFIX)) =>
        /\ formatted.kind = "returned"
        /\ formatted.value.status = "success"
        /\ formatted.value.message = Some(dbResult.text)
        /\ formatted.value.results = <<>>
        /\ formatted.value.columns = <<>>
        /\ formatted.value.rowCount = 0
        /\ formatted.value.truncated = FALSE
        /\ formatted.value.error = None

\* ---------------------------------------------------------------------------
\* Results are a prefix of the raw rows

\* C26: for raw rows that are row objects and any display limit, the
\* normalizer's results are a prefix of the raw rows in their original order
\* (no row added, reordered, altered or duplicated): all n rows when no limit
\* is given, exactly the first min(displayLimit, n) rows for a non-negative
\* numeric displayLimit, and never more than a non-negative displayLimit.
C26_ResultsArePrefix ==
    (Produced /\ rowObjectsOnly(rowsSupplied(dbResult))) =>
        LET rows == rowsSupplied(dbResult)
            res  == formatted.value.results
            n    == Len(rows)
        IN  /\ Len(res) <= n
            /\ \A i \in 1..Len(res) : res[i] = rows[i]
            /\ displayLimit = None => res = rows
            /\ (displayLimit # None /\ displayLimit[1] >= 0) =>
                  /\ Len(res) = (IF displayLimit[1] < n THEN displayLimit[1] ELSE n)
                  /\ Len(res) <= displayLimit[1]

\* Three different raw rows under a display limit of 2: results are the first
\* two of them, in order.
C26_Witness ==
    /\ Produced
    /\ Len(rowsSupplied(dbResult)) = 3
    /\ rowObjectsOnly(rowsSupplied(dbResult))
    /\ rowsSupplied(dbResult)[1] # rowsSupplied(dbResult)[2]
    /\ rowsSupplied(dbResult)[2] # rowsSupplied(dbResult)[3]
    /\ displayLimit = Some(2)
    /\ formatted.value.results = <<rowsSupplied(dbResult)[1], rowsSupplied(dbResult)[2]>>

\* ---------------------------------------------------------------------------
\* SSE sessions under interleaved connects, closes and posts

\* How many GET /mcp requests the model lets arrive.
MaxSessions == 3

\* The sessionId query parameter of a POST: absent, or an id, one more than
\* the server can have given out included.
PostedIds == {None} \cup {Some(k) : k \in 1..(MaxSessions + 1)}

\* The variables of the tool handler of one call.
handlerVars ==
    <<pc, tool, args, query, limit, validation, sent, gotPool, dbResult, label,
      displayLimit, formatted, response, countResult, fetched>>

InitSessions ==
    /\ urls = {}
    /\ pools = {}
    /\ Idle
    /\ NoServer

\* GET /mcp: handleSseRequest up to its await.  A fresh server and transport
\* are made and entered in the map under the transport's sessionId.
HandleSseRequest ==
    /\ Len(transports) < MaxSessions
    /\ LET k == Len(transports) + 1
           transport == newTransport(k)
       IN  /\ transports' = Append(transports, transport)
           /\ sessions' = sessionsSet(sessions, transport.sessionId, sessionRecord(k))
    /\ UNCHANGED <<urls, pools, handlerVars, posted, calls, made, endedPools, closing>>

\* await server.connect(transport) resolves.
ConnectResolves ==
    \E k \in 1..Len(transports) :
        /\ transports[k].connect = "pending"
        /\ transports' = [transports EXCEPT ![k].connect = "connected"]
        /\ UNCHANGED <<urls, pools, handlerVars, sessions, posted, calls, made,
                       endedPools, closing>>

\* await server.connect(transport) rejects: the catch block deletes the entry.
ConnectRejects ==
    \E k \in 1..Len(transports) :
        /\ transports[k].connect = "pending"
        /\ transports' = [transports EXCEPT ![k].connect = "failed"]
        /\ sessions' = sessionsDelete(sessions, transports[k].sessionId)
        /\ UNCHANGED <<urls, pools, handlerVars, posted, calls, made, endedPools,
                       closing>>

\* The transport closes and calls the onclose handleSseRequest gave it.
TransportCloses ==
    \E k \in 1..Len(transports) :
        /\ ~transports[k].closed
        /\ transports' = [transports EXCEPT ![k].closed = TRUE]
        /\ sessions' = sessionsDelete(sessions, transports[k].sessionId)
        /\ UNCHANGED <<urls, pools, handlerVars, posted, calls, made, endedPools,
                       closing>>

\* POST /mcp/messages
PostMessage ==
    \E sessionId \in PostedIds, threw \in BOOLEAN :
        /\ posted' = handlePostMessage(sessionId, sessions, threw)
        /\ UNCHANGED <<urls, pools, handlerVars, sessions, transports, calls, made,
                       endedPools, closing>>

NextSessions ==
    \/ HandleSseRequest
    \/ ConnectResolves
    \/ ConnectRejects
    \/ TransportCloses
    \/ PostMessage

SpecSessions == InitSessions /\ [][NextSessions]_vars

\* The transports whose session is open: not closed, connect not failed.
openTransports ==
    {k \in 1..Len(transports) : ~transports[k].closed /\ transports[k].connect # "failed"}

\* C28: a POST is handed to a transport only if its sessionId names a session
\* that is in the sessions map at that moment, and then to that session's own
\* transport; a POST with no sessionId is answered 400, and one whose
\* sessionId was never registered, or whose session has closed or failed to
\* connect, is answered 404, whatever connects, closes and posts came before.
C28_PostsReachOwnSession ==
    [][posted' # posted =>
         LET p == posted'
         IN  /\ p.sessionId = None => (p.status = "400" /\ p.transport = None)
             /\ (p.sessionId # None /\ p.sessionId[1] \notin DOMAIN sessions) =>
                   (p.status = "404" /\ p.transport = None)
             /\ (p.sessionId # None /\ p.sessionId[1] \notin openTransports) =>
                   (p.status = "404" /\ p.transport = None)
             /\ p.transport # None =>
                   /\ p.sessionId # None
                   /\ p.sessionId[1] \in DOMAIN sessions
                   /\ p.transport[1] = sessions[p.sessionId[1]].transport
                   /\ transports[p.transport[1]].sessionId = p.sessionId[1]
                   /\ p.transport[1] \in openTransports]_vars

\* A POST naming session 1 after its transport closed, while session 2 is
\* open: answered 404 and handed to no transport.
C28_Witness ==
    /\ Len(transports) >= 2
    /\ transports[1].closed
    /\ 2 \in DOMAIN sessions
    /\ posted.sessionId = Some(1)
    /\ posted.status = "404"
    /\ posted.transport = None

\* A POST naming session 2 while sessions 1 and 2 are open: handed to
\* transport 2.
C28_WitnessHanded ==
    /\ DOMAIN sessions = {1, 2}
    /\ posted.sessionId = Some(2)
    /\ posted.status = "transport"
    /\ posted.transport = Some(2)

\* C29: the sessions map holds exactly the SSE sessions that were opened and
\* have neither closed nor failed to connect, each under its transport's
\* sessionId with its own server and transport; so closing or failing one
\* session leaves every other entry in place and unchanged.
C29_SessionsAreOpenOnes ==
    /\ DOMAIN sessions = {transports[k].sessionId : k \in openTransports}
    /\ \A k \in openTransports : sessions[transports[k].sessionId] = [server |-> k, transport |-> k]
    /\ \A i, j \in DOMAIN sessions :
          i # j => /\ sessions[i].server # sessions[j].server
                   /\ sessions[i].transport # sessions[j].transport

\* Three sessions were opened, the first closed and the second failed to
\* connect: the map holds the third alone.
C29_Witness ==
    /\ Len(transports) = 3
    /\ transports[1].closed
    /\ transports[2].connect = "failed"
    /\ ~transports[3].closed
    /\ transports[3].connect = "connected"
    /\ DOMAIN sessions = {3}

\* ---------------------------------------------------------------------------
\* The pool map under interleaved executeQuery and closePool calls

\* How many executeQuery calls can be in flight at once.
MaxCalls == 2

\* How many times closePool is called.
MaxCloses == 1

Invocations == 1..MaxCalls

\* The SQL texts of the calls: one validateQuery accepts, one it rejects.
PoolQueries == {F_select_a, F_DROP_TABLE}

\* What client.query can settle to on a pool that was not ended when the
\* query was issued, and on one that was.
PoolOutcomes(usable) ==
    IF usable
    THEN {[ok |-> TRUE, fields |-> <<"id", "v">>, rows |-> <<DbRow(1)>>,
           message |-> Undefined],
          [ok |-> FALSE, fields |-> <<>>, rows |-> <<>>, message |-> Str(ERR_RELATION)]}
    ELSE {[ok |-> FALSE, fields |-> <<>>, rows |-> <<>>, message |-> Str(ERR_RELATION)]}

\* The frame of one executeQuery call: pool is the pool getPool returned (the
\* pool.made-th pool of its type), usable whether that pool had not been
\* ended when client.query was called.
NoQueryCall ==
    [pc |-> "idle", query |-> <<>>, dbType |-> "main", pool |-> None,
     usable |-> FALSE, result |-> EmptyObject]

InitPools ==
    /\ urls \in SUBSET DatabaseTypes
    /\ pools = {}
    /\ Idle
    /\ sessions = NoSessions
    /\ transports = <<>>
    /\ posted = NoPost
    /\ calls = [i \in Invocations |-> NoQueryCall]
    /\ made = [t \in DatabaseTypes |-> 0]
    /\ endedPools = {}
    /\ closing = [running |-> FALSE, visited |-> {}, runs |-> 0]

\* executeQuery(q, undefined, undefined, dbType) up to its await, or to its
\* return when validateQuery rejects the text or getPool throws.
ExecuteQuery ==
    \E i \in Invocations, q \in PoolQueries, dbType \in DatabaseTypes :
        /\ calls[i].pc = "idle"
        /\ \E started \in {executeQueryStart(q, None, dbType, pools, urls)} :
             /\ pools' = started.pools
             /\ made' = IF started.gotPool /\ getPool(dbType, pools, urls).created
                        THEN [made EXCEPT ![dbType] = @ + 1] ELSE made
             /\ calls' = [calls EXCEPT ![i] =
                            IF started.awaiting
                            THEN [pc |-> "querying", query |-> q, dbType |-> dbType,
                                  pool |-> Some(made'[dbType]),
                                  usable |-> <<dbType, made'[dbType]>> \notin endedPools,
                                  result |-> EmptyObject]
                            ELSE [pc |-> "returned", query |-> q, dbType |-> dbType,
                                  pool |-> None, usable |-> FALSE,
                                  result |-> started.result]]
        /\ UNCHANGED <<urls, handlerVars, sessions, transports, posted, endedPools,
                       closing>>

\* client.query settles and executeQuery returns.
QuerySettles ==
    \E i \in Invocations :
        /\ calls[i].pc = "querying"
        /\ \E outcome \in PoolOutcomes(calls[i].usable) :
             calls' = [calls EXCEPT ![i].pc = "returned",
                                    ![i].result = executeQueryFinish(outcome)]
        /\ UNCHANGED <<urls, pools, handlerVars, sessions, transports, posted, made,
                       endedPools, closing>>

\* The caller has the result; the frame is dropped.
QueryReturned ==
    \E i \in Invocations :
        /\ calls[i].pc = "returned"
        /\ calls' = [calls EXCEPT ![i] = NoQueryCall]
        /\ UNCHANGED <<urls, pools, handlerVars, sessions, transports, posted, made,
                       endedPools, closing>>

\* closePool is called: with an empty map it clears it and returns; otherwise
\* it calls pool.end() on an entry and awaits.  (The loop follows the map's
\* insertion order, which the model does not keep: any order is allowed.)
ClosePool ==
    /\ ~closing.running
    /\ closing.runs < MaxCloses
    /\ IF pools = {}
       THEN /\ closing' = [closing EXCEPT !.runs = @ + 1]
            /\ UNCHANGED <<pools, endedPools>>
       ELSE \E dbType \in pools :
              /\ endedPools' = endedPools \cup {<<dbType, made[dbType]>>}
              /\ closing' = [running |-> TRUE, visited |-> {dbType},
                             runs |-> closing.runs + 1]
              /\ UNCHANGED pools
    /\ UNCHANGED <<urls, handlerVars, sessions, transports, posted, calls, made>>

\* await pool.end() resolves: the loop goes on to an entry it has not visited,
\* one added meanwhile included, or, when there is none, pools.clear() runs
\* and closePool returns.
ClosePoolResumes ==
    /\ closing.running
    /\ IF pools \ closing.visited = {}
       THEN /\ pools' = {}
            /\ closing' = [closing EXCEPT !.running = FALSE, !.visited = {}]
            /\ UNCHANGED endedPools
       ELSE \E dbType \in pools \ closing.visited :
              /\ endedPools' = endedPools \cup {<<dbType, made[dbType]>>}
              /\ closing' = [closing EXCEPT !.visited = @ \cup {dbType}]
              /\ UNCHANGED pools
    /\ UNCHANGED <<urls, handlerVars, sessions, transports, posted, calls, made>>

NextPools ==
    \/ ExecuteQuery
    \/ QuerySettles
    \/ QueryReturned
    \/ ClosePool
    \/ ClosePoolResumes

SpecPools == InitPools /\ [][NextPools]_vars

\* The pools of a type that were made and not ended.
livePools(dbType) == {g \in 1..made[dbType] : <<dbType, g>> \notin endedPools}

\* The call of frame i is issued in this step.
Issued(i) == calls[i].pc = "idle" /\ calls'[i].pc # "idle"

\* C30: at any time at most one pool per database type has been made and not
\* ended, and it is the one in the pool map; an executeQuery that finds a pool
\* of its type in the map makes no pool and uses that one, and one that finds
\* none makes exactly one; when closePool returns the map is empty and every
\* pool made so far is ended; a query issued while no closePool is running, in
\* particular after one has returned, gets a pool that is not ended; with no
\* URL for its type and no pool, executeQuery of an accepted text returns
\* {success: false} with the configuration error.
C30_OnePoolPerType ==
    /\ [](\A t \in DatabaseTypes :
            /\ Cardinality(livePools(t)) <= 1
            /\ livePools(t) \subseteq {made[t]}
            /\ livePools(t) # {} => t \in pools
            /\ t \in pools => made[t] >= 1)
    /\ [][/\ \A i \in Invocations :
               Issued(i) =>
                 LET t == calls'[i].dbType
                 IN  /\ t \in pools =>
                           /\ made' = made
                           /\ calls'[i].pc = "querying" => calls'[i].pool = Some(made[t])
                     /\ calls'[i].pc = "querying" =>
                           /\ t \in pools'
                           /\ calls'[i].pool = Some(made'[t])
                           /\ t \notin pools => made'[t] = made[t] + 1
                           /\ ~closing.running => <<t, made'[t]>> \notin endedPools'
                     /\ (t \notin urls /\ t \notin pools /\ validateQuery(calls'[i].query).valid) =>
                           /\ calls'[i].pc = "returned"
                           /\ calls'[i].result
                                = failure(Str(TXT_URL_NOT_CONFIGURED \o dbTypeName(t)))
                           /\ made' = made /\ pools' = pools
        /\ (closing.runs' > closing.runs \/ closing.running) /\ ~closing.running' =>
               /\ pools' = {}
               /\ \A t \in DatabaseTypes : livePools(t)' = {}]_vars

\* closePool has returned, and a query issued after it runs on the second
\* pool of its type, which is not ended, while the first one is.
C30_Witness ==
    /\ ~closing.running
    /\ closing.runs = 1
    /\ \E i \in Invocations :
          /\ calls[i].pc = "querying"
          /\ calls[i].dbType = "main"
          /\ calls[i].pool = Some(2)
          /\ calls[i].usable
    /\ made["main"] = 2
    /\ <<"main", 1>> \in endedPools
    /\ livePools("main") = {2}

\* Two calls for the same type are in flight on the same pool, the only one
\* made for the type.
C30_WitnessReuse ==
    /\ calls[1].pc = "querying" /\ calls[2].pc = "querying"
    /\ calls[1].dbType = calls[2].dbType
    /\ calls[1].pool = Some(1) /\ calls[2].pool = Some(1)
    /\ made[calls[1].dbType] = 1

\* A call for a type with no URL has returned the configuration error.
C30_WitnessNoUrl ==
    \E i \in Invocations :
        /\ calls[i].pc = "returned"
        /\ calls[i].dbType = "hul"
        /\ "hul" \notin urls
        /\ calls[i].result = failure(Str(TXT_URL_NOT_CONFIGURED \o TXT_HUL))

\* ---------------------------------------------------------------------------
\* Tool invocations on different sessions, interleaved

\* The SQL texts of concurrent run_query calls.
ConcurrentQueries == {F_select_a, F_DROP_TABLE, F_select_a \o F_limit_5}

\* The calls made: run_query, capped for display, and get_sample_data, not
\* capped.  Each is the tool's name, its parsed arguments, and the text and
\* limit it hands to executeQuery.
ConcurrentCalls ==
    {[name |-> "run_query", args |-> [NoArgs EXCEPT !.query = q, !.limit = l],
      query |-> q, limit |-> l] : q \in ConcurrentQueries, l \in {None, Some(7)}}
    \cup
    {[name |-> "get_sample_data", args |-> [NoArgs EXCEPT !.limit = l],
      query |-> sampleDataQuery(l), limit |-> None] : l \in {None, Some(7)}}

\* What client.query settles to: no row, one row, more rows than the display
\* cap, or an error.
ConcurrentOutcomes == {o \in DbOutcomes : ~o.ok \/ Len(o.rows) \in {0, 1, MaxDbRows}}

\* The frame of one invocation of the CallTool handler: its request, the
\* outcome client.query gave it (if it got that far) and its response.
NoInvocation == [pc |-> "idle", call |-> None, outcome |-> None, response |-> NoResponse]

\* The handler's response for a tool whose executeQuery returned result.
respond(call, result) ==
    LET f == formatCall(call.name, call.args, result)
    IN  toolResponse(formatDatabaseResult(f.dbResult, f.label, f.displayLimit),
                     fallbackText(call.name, call.args))

InitConcurrent ==
    /\ urls \in SUBSET {"main"}
    /\ pools = {}
    /\ Idle
    /\ sessions = NoSessions
    /\ transports = <<>>
    /\ posted = NoPost
    /\ calls = [i \in Invocations |-> NoInvocation]
    /\ made = [t \in DatabaseTypes |-> 0]
    /\ endedPools = {}
    /\ closing = NotClosing

\* The handler of session i is entered and runs to the await of client.query,
\* or to its return when executeQuery returns at once.
InvokeTool ==
    \E i \in Invocations, call \in ConcurrentCalls :
        /\ calls[i].pc = "idle"
        /\ \E started \in {executeQueryStart(call.query, call.limit, "main", pools, urls)} :
             /\ pools' = started.pools
             /\ calls' = [calls EXCEPT ![i] =
                            IF started.awaiting
                            THEN [pc |-> "querying", call |-> Some(call),
                                  outcome |-> None, response |-> NoResponse]
                            ELSE [pc |-> "done", call |-> Some(call), outcome |-> None,
                                  response |-> respond(call, started.result)]]
        /\ UNCHANGED <<urls, handlerVars, sessions, transports, posted, made, endedPools,
                       closing>>

\* client.query of session i's invocation settles; executeQuery and the
\* handler run to their return.
ToolQuerySettles ==
    \E i \in Invocations :
        /\ calls[i].pc = "querying"
        /\ \E outcome \in ConcurrentOutcomes :
             calls' = [calls EXCEPT ![i] =
                         [pc |-> "done", call |-> calls[i].call, outcome |-> Some(outcome),
                          response |-> respond(calls[i].call[1],
                                               executeQueryFinish(outcome))]]
        /\ UNCHANGED <<urls, pools, handlerVars, sessions, transports, posted, made,
                       endedPools, closing>>

\* The response of session i's invocation has gone out; its frame is dropped.
ToolDelivers ==
    \E i \in Invocations :
        /\ calls[i].pc = "done"
        /\ calls' = [calls EXCEPT ![i] = NoInvocation]
        /\ UNCHANGED <<urls, pools, handlerVars, sessions, transports, posted, made,
                       endedPools, closing>>

NextConcurrent ==
    \/ InvokeTool
    \/ ToolQuerySettles
    \/ ToolDelivers

SpecConcurrent == InitConcurrent /\ [][NextConcurrent]_vars

\* The response of the call run alone, in a process that has made no pool
\* yet, when client.query (if reached) settles to outcome.
alone(call, outcome) ==
    LET v == validateQuery(call.query)
        result == IF ~v.valid THEN failure(Str(v.error[1]))
                  ELSE IF "main" \notin urls
                  THEN failure(Str(TXT_URL_NOT_CONFIGURED \o TXT_MAIN))
                  ELSE executeQueryFinish(outcome[1])
        f == formatCall(call.name, call.args, result)
        out == formatDatabaseResult(f.dbResult, f.label, f.displayLimit)
    IN  toolResponse(out, fallbackText(call.name, call.args))

\* C27: under any interleaving of invocations on different sessions, the
\* response of each invocation, its QueryResult included, is the one the same
\* call would get if run alone with the same database outcome; and it got a
\* database outcome exactly when the guard accepted its text and a URL is
\* configured.
C27_InvocationsIndependent ==
    \A i \in Invocations :
        calls[i].pc = "done" =>
            /\ calls[i].outcome # None
                 <=> (validateQuery(calls[i].call[1].query).valid /\ "main" \in urls)
            /\ calls[i].response = alone(calls[i].call[1], calls[i].outcome)

\* Session 1's run_query got six rows and returned the first five, flagged
\* truncated, while session 2's get_sample_data, called before it settled,
\* returned all six of its own.
C27_Witness ==
    /\ calls[1].pc = "done" /\ calls[2].pc = "done"
    /\ calls[1].call[1].name = "run_query"
    /\ calls[2].call[1].name = "get_sample_data"
    /\ calls[1].outcome # None /\ calls[2].outcome # None
    /\ Len(calls[1].outcome[1].rows) = MaxDbRows
    /\ Len(calls[2].outcome[1].rows) = MaxDbRows
    /\ calls[1].response.kind = "result"
    /\ Len(calls[1].response.structured.results) = RAW_DATA_EXPORT_ROW_CAP
    /\ calls[1].response.structured.truncated
    /\ Len(calls[2].response.structured.results) = MaxDbRows
    /\ ~calls[2].response.structured.truncated
====
